---------------------------- MODULE Spec2Model ----------------------------
(***************************************************************************)
(* Trello-Archiver: the archive database (path_taken), the timestamp       *)
(* codec, the single-card journey timeline, the cross-card flow            *)
(* aggregation and the chord layout of the dashboard.                      *)
(*                                                                         *)
(* Python and SQL strings are TLA+ strings; a character is a string of     *)
(* length one.  Python's None, pandas' NaT and a raised exception are the  *)
(* tagged values defined below.                                            *)
(***************************************************************************)
EXTENDS Integers, Sequences, FiniteSets, TLC

VARIABLES
    cards,        \* number of rows of table cards: their ids are 1..cards
    path_taken,   \* rows of table path_taken, in rowid order
    parsed,       \* the last call of parse_timestamp: its argument and result
    journey,      \* the last card-detail journey: create_journey_state_diagram
    flow,         \* the last call of get_card_flow_data
    chord,        \* the last run of the callback update_chord_filtered
    formatted,    \* the last timestamp parsed and formatted again by fdate
    diagram,      \* the last diagram laid out from a list of flow edges
    card_rows,    \* rows of table cards in rowid order, each with its rows of
                  \* the tables labels, comments, checklists and attachments
    trello,       \* the Trello list the archiver reads, and the day it is
    run,          \* the last run of the archiver
    files,        \* the attachment directory and the downloads made into it
    search        \* the search page: its inputs, its page store, what it shows

vars == <<cards, path_taken, parsed, journey, flow, chord, formatted, diagram,
          card_rows, trello, run, files, search>>

\* Every Python value the model handles is a record with a field "kind", so
\* that None, NaT, an exception and a datetime can be compared with each other.
None == [kind |-> "None"]
NaT == [kind |-> "NaT"]
IndexError == [kind |-> "IndexError"]
ValueError == [kind |-> "ValueError"]
Exceptions == {IndexError, ValueError}

-----------------------------------------------------------------------------
(* Text: characters, byte order, str.split, int()                          *)

CharAt(s, i) == SubSeq(s, i, i)

Digits == {"0", "1", "2", "3", "4", "5", "6", "7", "8", "9"}

\* The code point of a character: the order of Python's str comparison and
\* of SQLite's BINARY collation (memcmp) on ASCII text.
CodePoint ==
    [c \in {" ", "-", ":", "A", "B", "C", "x"} \cup Digits |->
        CASE c = " " -> 32
          [] c = "-" -> 45
          [] c = "0" -> 48
          [] c = "1" -> 49
          [] c = "2" -> 50
          [] c = "3" -> 51
          [] c = "4" -> 52
          [] c = "5" -> 53
          [] c = "6" -> 54
          [] c = "7" -> 55
          [] c = "8" -> 56
          [] c = "9" -> 57
          [] c = ":" -> 58
          [] c = "A" -> 65
          [] c = "B" -> 66
          [] c = "C" -> 67
          [] c = "x" -> 120]

Ord(c) == CodePoint[c]

DigitVal(c) == Ord(c) - 48

\* a < b in byte order: the first differing character decides, a proper
\* prefix is smaller.
RECURSIVE StrLess(_, _)
StrLess(a, b) ==
    IF b = "" THEN FALSE
    ELSE IF a = "" THEN TRUE
    ELSE IF CharAt(a, 1) # CharAt(b, 1) THEN Ord(CharAt(a, 1)) < Ord(CharAt(b, 1))
    ELSE StrLess(Tail(a), Tail(b))

StrLeq(a, b) == a = b \/ StrLess(a, b)

\* str.split(sep) with a one-character separator: every separator cuts,
\* empty fields are kept, and a string without separator is one field.
RECURSIVE Split(_, _)
Split(s, sep) ==
    LET hits == {i \in 1..Len(s) : CharAt(s, i) = sep} IN
    IF hits = {} THEN <<s>>
    ELSE LET i == CHOOSE k \in hits : \A j \in hits : k <= j IN
         <<SubSeq(s, 1, i - 1)>> \o Split(SubSeq(s, i + 1, Len(s)), sep)

RECURSIVE DigitsValue(_)
DigitsValue(s) ==
    IF s = "" THEN 0
    ELSE 10 * DigitsValue(SubSeq(s, 1, Len(s) - 1)) + DigitVal(CharAt(s, Len(s)))

AllDigits(s) == s # "" /\ \A i \in 1..Len(s) : CharAt(s, i) \in Digits

\* int(s) on the model's alphabet accepts an optional minus sign and at
\* least one digit; on anything else it raises ValueError.
IntRaises(s) ==
    ~ \/ AllDigits(s)
      \/ (s # "" /\ CharAt(s, 1) = "-" /\ AllDigits(Tail(s)))

PyInt(s) ==
    IF AllDigits(s) THEN DigitsValue(s) ELSE 0 - DigitsValue(Tail(s))

-----------------------------------------------------------------------------
(* datetime                                                                *)

IsLeap(y) == y % 4 = 0 /\ (y % 100 # 0 \/ y % 400 = 0)

DaysInMonth(y, m) ==
    IF m = 2 THEN (IF IsLeap(y) THEN 29 ELSE 28)
    ELSE IF m \in {4, 6, 9, 11} THEN 30 ELSE 31

\* datetime(year, month, day, hour, minute): the value, or ValueError when a
\* field is out of range.
DateTime(y, mo, d, h, mi) ==
    IF /\ 1 <= y /\ y <= 9999
       /\ 1 <= mo /\ mo <= 12
       /\ 1 <= d /\ d <= DaysInMonth(y, mo)
       /\ 0 <= h /\ h <= 23
       /\ 0 <= mi /\ mi <= 59
    THEN [kind |-> "datetime", year |-> y, month |-> mo, day |-> d,
          hour |-> h, minute |-> mi]
    ELSE ValueError

RECURSIVE DaysBeforeMonth(_, _)
DaysBeforeMonth(y, m) ==
    IF m = 1 THEN 0 ELSE DaysBeforeMonth(y, m - 1) + DaysInMonth(y, m - 1)

DaysBeforeYear(y) ==
    (y - 1) * 365 + ((y - 1) \div 4) - ((y - 1) \div 100) + ((y - 1) \div 400)

\* date.toordinal(): 1 for 0001-01-01.
ToOrdinal(dt) == DaysBeforeYear(dt.year) + DaysBeforeMonth(dt.year, dt.month) + dt.day

\* The pandas Timestamp of a datetime: its value in a datetime64 column,
\* counted in minutes since 1970-01-01 00:00 (ordinal 719163); the codec has
\* no finer unit.
Timestamp(dt) ==
    [kind |-> "Timestamp",
     value |-> ((ToOrdinal(dt) - 719163) * 24 + dt.hour) * 60 + dt.minute]

-----------------------------------------------------------------------------
(* parse_timestamp                                                         *)

\* The body of the try block: the parsed datetime, or the exception raised.
ParseTimestampTry(time_str) ==
    LET parts == Split(time_str, " ")
        date_parts == Split(parts[1], ":")
        time_parts == IF Len(parts) > 1 THEN Split(parts[2], ":") ELSE <<"00", "00">>
    IN  IF Len(date_parts) < 1 THEN IndexError
        ELSE IF IntRaises(date_parts[1]) THEN ValueError
        ELSE IF Len(date_parts) < 2 THEN IndexError
        ELSE IF IntRaises(date_parts[2]) THEN ValueError
        ELSE IF Len(date_parts) < 3 THEN IndexError
        ELSE IF IntRaises(date_parts[3]) THEN ValueError
        ELSE IF Len(time_parts) < 1 THEN IndexError
        ELSE IF IntRaises(time_parts[1]) THEN ValueError
        ELSE IF Len(time_parts) < 2 THEN IndexError
        ELSE IF IntRaises(time_parts[2]) THEN ValueError
        ELSE DateTime(2000 + PyInt(date_parts[3]), PyInt(date_parts[1]),
                      PyInt(date_parts[2]), PyInt(time_parts[1]), PyInt(time_parts[2]))

\* A mutant: the handler catches ValueError only, an IndexError escapes.
ExceptValueErrorOnly(outcome) == IF outcome = ValueError THEN None ELSE outcome

\* The bare "except:" of parse_timestamp: every exception becomes None.
ExceptAll(outcome) == IF outcome \in Exceptions THEN None ELSE outcome

parse_timestamp(time_str) ==
    IF time_str = "" THEN None
    ELSE ExceptAll(ParseTimestampTry(time_str))

-----------------------------------------------------------------------------
(* fdate                                                                   *)

DigitChar == [d \in 0..9 |-> CASE d = 0 -> "0" [] d = 1 -> "1" [] d = 2 -> "2"
                               [] d = 3 -> "3" [] d = 4 -> "4" [] d = 5 -> "5"
                               [] d = 6 -> "6" [] d = 7 -> "7" [] d = 8 -> "8"
                               [] d = 9 -> "9"]

\* A number from 0 to 99 as strftime writes %m, %d, %y, %H and %M: two
\* digits.
TwoDigit(n) == DigitChar[n \div 10] \o DigitChar[n % 10]

\* %Y: the year in four digits
FourDigit(n) == TwoDigit(n \div 100) \o TwoDigit(n % 100)

\* A mutant: the format '%m:%d:%Y %H:%M'
fdateLongYear(date) ==
    IF date.kind # "datetime" THEN None
    ELSE [kind |-> "str",
          text |-> TwoDigit(date.month) \o ":" \o TwoDigit(date.day) \o ":"
                   \o FourDigit(date.year) \o " "
                   \o TwoDigit(date.hour) \o ":" \o TwoDigit(date.minute)]

\* fdate: date.strftime('%m:%d:%y %H:%M'), and None for a value without
\* strftime (AttributeError), as None is.
fdate(date) ==
    IF date.kind # "datetime" THEN None
    ELSE [kind |-> "str",
          text |-> TwoDigit(date.month) \o ":" \o TwoDigit(date.day) \o ":"
                   \o TwoDigit(date.year % 100) \o " "
                   \o TwoDigit(date.hour) \o ":" \o TwoDigit(date.minute)]

-----------------------------------------------------------------------------
(* slugify                                                                 *)

\* str.lower() on ASCII: the small letter of every capital letter
LowerCase ==
    ("A" :> "a") @@ ("B" :> "b") @@ ("C" :> "c") @@ ("D" :> "d") @@ ("E" :> "e") @@ ("F" :> "f") @@
    ("G" :> "g") @@ ("H" :> "h") @@ ("I" :> "i") @@ ("J" :> "j") @@ ("K" :> "k") @@ ("L" :> "l") @@
    ("M" :> "m") @@ ("N" :> "n") @@ ("O" :> "o") @@ ("P" :> "p") @@ ("Q" :> "q") @@ ("R" :> "r") @@
    ("S" :> "s") @@ ("T" :> "t") @@ ("U" :> "u") @@ ("V" :> "v") @@ ("W" :> "w") @@ ("X" :> "x") @@
    ("Y" :> "y") @@ ("Z" :> "z")

Lower(c) == IF c \in DOMAIN LowerCase THEN LowerCase[c] ELSE c

\* The classes of the two regular expressions, on ASCII: \w is a letter, a
\* digit or the underscore, \s is white space.
IsWord(c) ==
    \/ c \in Digits
    \/ c = "_"
    \/ c \in DOMAIN LowerCase
    \/ \E capital \in DOMAIN LowerCase : LowerCase[capital] = c
IsSpace(c) == c \in {" ", "\t", "\n"}

\* value.lower()
RECURSIVE LowerAll(_)
LowerAll(value) ==
    IF value = "" THEN "" ELSE Lower(CharAt(value, 1)) \o LowerAll(SubSeq(value, 2, Len(value)))

\* re.sub(r'[^\w\s-]', '', value): every character that is no word
\* character, no white space and no hyphen is removed.
RECURSIVE RemoveOthers(_)
RemoveOthers(value) ==
    IF value = "" THEN ""
    ELSE LET c == CharAt(value, 1)
             rest == RemoveOthers(SubSeq(value, 2, Len(value)))
         IN  IF IsWord(c) \/ IsSpace(c) \/ c = "-" THEN c \o rest ELSE rest

\* re.sub(r'[-\s]+', '-', value): every longest run of hyphens and white
\* space becomes one hyphen.
RECURSIVE CollapseRuns(_, _)
CollapseRuns(value, in_run) ==
    IF value = "" THEN ""
    ELSE LET c == CharAt(value, 1)
             rest == SubSeq(value, 2, Len(value))
         IN  IF c = "-" \/ IsSpace(c)
             THEN (IF in_run THEN "" ELSE "-") \o CollapseRuns(rest, TRUE)
             ELSE c \o CollapseRuns(rest, FALSE)

\* value.strip('-_')
RECURSIVE StripLeft(_)
StripLeft(value) ==
    IF value # "" /\ CharAt(value, 1) \in {"-", "_"}
    THEN StripLeft(SubSeq(value, 2, Len(value))) ELSE value

RECURSIVE StripRight(_)
StripRight(value) ==
    IF value # "" /\ CharAt(value, Len(value)) \in {"-", "_"}
    THEN StripRight(SubSeq(value, 1, Len(value) - 1)) ELSE value

\* slugify(value) with allow_unicode False, on ASCII text, which NFKD and
\* the encoding to ASCII leave as it is.
slugify(value) == StripRight(StripLeft(CollapseRuns(RemoveOthers(LowerAll(value)), FALSE)))

-----------------------------------------------------------------------------
(* download                                                                *)

\* str(n) of a number that is not negative
RECURSIVE Decimal(_)
Decimal(n) == IF n < 10 THEN DigitChar[n] ELSE Decimal(n \div 10) \o DigitChar[n % 10]

\* os.path.exists(route) in the attachment directory save_path: a file
\* written before, or the directory itself, which save_path followed by
\* '/' names.
Exists(paths, save_path, route) == route \in paths \/ route = save_path \o "/"

\* A mutant: `if` for `while`, one other name is tried and taken.
RouteIfExists(paths, save_path, slug, route, dupes) ==
    IF Exists(paths, save_path, route)
    THEN save_path \o "/d" \o Decimal(dupes) \o "_" \o slug
    ELSE route

\* The loop `while os.path.exists(route)`: the route it ends with.
RECURSIVE RouteWhileExists(_, _, _, _, _)
RouteWhileExists(paths, save_path, slug, route, dupes) ==
    IF Exists(paths, save_path, route)
    THEN RouteWhileExists(paths, save_path, slug,
                          save_path \o "/d" \o Decimal(dupes) \o "_" \o slug, dupes + 1)
    ELSE route

\* download(url, save_path, filename): the route the file is opened at.
download_route(paths, save_path, filename) ==
    LET slug == slugify(filename) IN
    RouteWhileExists(paths, save_path, slug, save_path \o "/" \o slug, 1)

\* download on the directory fs: the file is opened for writing at the
\* route, which creates it or empties it, then the response is fetched and
\* written; a request that raises leaves the file empty.  existed tells
\* whether the route named a file when it was opened.
download(fs, save_path, filename, resp) ==
    LET route == download_route(fs.paths, save_path, filename) IN
    [paths |-> fs.paths \cup {route},
     downloads |-> Append(fs.downloads,
                          [filename |-> filename, route |-> route,
                           existed |-> route \in fs.paths,
                           written |-> resp = "content"])]

-----------------------------------------------------------------------------
(* Sequences                                                               *)

Perms(n) == Permutations(1..n)

\* A sequence built by a function constructor is followed by \o <<>>, which
\* makes it a tuple whose elements are computed once.

Permute(seq, p) == [i \in 1..Len(seq) |-> seq[p[i]]] \o <<>>

-----------------------------------------------------------------------------
(* The archive database                                                    *)

\* backup_to_sqlite on table cards and the tables labels, comments,
\* checklists and attachments: the card's row, with the next id, and with it
\* the rows that carry its card_id, in list order.  desc '' is stored as
\* NULL.  The columns end_date and the table checklist_items, which no query
\* of the search reads, are left out.
backup_to_sqlite_card(card, card_id) ==
    [id |-> card_id,
     name |-> card.name,
     create_date |-> card.create_date,
     desc |-> IF card.desc = "" THEN None ELSE [kind |-> "str", text |-> card.desc],
     due_date |-> card.due_date,
     completed |-> card.completed,
     list |-> card.list,
     labels |-> card.labels,
     comments |-> card.comments,
     checklists |-> card.checklists,
     attachments |-> card.attachments]

\* backup_to_sqlite: the card gets the next id of table cards and each of its
\* moves becomes a row of path_taken, with the next rowids, in list order.
backup_to_sqlite_rows(card, card_id) ==
    [i \in 1..Len(card.path_taken) |->
        [id |-> Len(path_taken) + i,
         card_id |-> card_id,
         from_list |-> card.path_taken[i].from,
         to_list |-> card.path_taken[i].to,
         time |-> card.path_taken[i].time]]

-----------------------------------------------------------------------------
(* The archiver                                                            *)

\* Days a card stays on the list after its latest move
ArchiveAfterDays == 30

\* card_to_dict: the dictionary of a Trello card.  Dates are formatted by
\* fdate; a card without due date, whose due_date is '', has due_date and
\* completed None.  end_date and the items of the checklists are left out,
\* as in backup_to_sqlite_card.
card_to_dict(_card) ==
    [name |-> _card.name,
     labels |-> _card.labels,
     create_date |-> fdate(_card.card_created_date).text,
     desc |-> _card.description,
     due_date |-> fdate(_card.due_date),
     completed |-> IF _card.due_date.kind = "datetime"
                   THEN [kind |-> "bool", value |-> _card.is_due_complete] ELSE None,
     path_taken |-> [i \in 1..Len(_card.list_movements) |->
                       [from |-> _card.list_movements[i].source,
                        to |-> _card.list_movements[i].destination,
                        time |-> fdate(_card.list_movements[i].datetime).text]] \o <<>>,
     list |-> _card.list,
     comments |-> _card.comments,
     checklists |-> _card.checklists,
     attachments |-> _card.attachments]

\* The cards to archive: those never moved and those whose latest move is
\* more than 30 days before NOW.
ToArchive(c, NOW) ==
    \/ c.latestCardMove_date = None
    \/ Timestamp(c.latestCardMove_date).value <
           Timestamp(NOW).value - ArchiveAfterDays * 24 * 60

\* The statements backup_to_sqlite executes for a card, one after the
\* other: the row of the card, then its labels, its moves, its comments, its
\* checklists and its attachments.
StatementCount(card) ==
    1 + Len(card.labels) + Len(card.path_taken) + Len(card.comments)
      + Len(card.checklists) + Len(card.attachments)

Prefix(seq, n) ==
    SubSeq(seq, 1, IF n < 0 THEN 0 ELSE IF n > Len(seq) THEN Len(seq) ELSE n)

\* What the first done >= 1 statements of backup_to_sqlite insert of a card.
Executed(card, done) ==
    LET l == Len(card.labels)
        p == l + Len(card.path_taken)
        c == p + Len(card.comments)
        k == c + Len(card.checklists)
    IN  [card EXCEPT !.labels = Prefix(@, done - 1),
                     !.path_taken = Prefix(@, done - 1 - l),
                     !.comments = Prefix(@, done - 1 - p),
                     !.checklists = Prefix(@, done - 1 - c),
                     !.attachments = Prefix(@, done - 1 - k)]

\* The tables of a connection after the first done statements of
\* backup_to_sqlite(card, cur).
Insert(tables, card, done) ==
    IF done = 0 THEN tables
    ELSE LET part == Executed(card, done)
             card_id == tables.cards + 1
         IN  [cards |-> card_id,
              card_rows |-> Append(tables.card_rows, backup_to_sqlite_card(part, card_id)),
              path_taken |-> tables.path_taken \o
                  ([i \in 1..Len(part.path_taken) |->
                      [id |-> Len(tables.path_taken) + i,
                       card_id |-> card_id,
                       from_list |-> part.path_taken[i].from,
                       to_list |-> part.path_taken[i].to,
                       time |-> part.path_taken[i].time]] \o <<>>)]

\* The loop `for card in arch: backup_to_sqlite(card, cur)` from card k on.
\* raise_at is None, or names the card during whose backup a statement
\* raises and the number of statements of that backup executed before it.
RECURSIVE ArchiveFrom(_, _, _, _)
ArchiveFrom(tables, arch, k, raise_at) ==
    IF k > Len(arch) THEN tables
    ELSE IF raise_at # None /\ raise_at.card = k
         THEN Insert(tables, arch[k], raise_at.done)
         ELSE ArchiveFrom(Insert(tables, arch[k], StatementCount(arch[k])),
                          arch, k + 1, raise_at)

\* sqlite3: commit makes the statements of the connection durable, rollback
\* drops those made since the last commit.
Commit(conn) == [durable |-> conn.current, current |-> conn.current]
Rollback(conn) == [durable |-> conn.durable, current |-> conn.durable]

\* Query.__exit__: the connection is committed, and after that, when the
\* block raised, rolled back.
QueryExit(conn, exc) ==
    LET committed == Commit(conn) IN
    IF exc # None THEN Rollback(committed) ELSE committed

\* NOW.strftime('attach %-m-%-d-%y'): month and day without padding
Unpadded(n) == IF n < 10 THEN DigitChar[n] ELSE TwoDigit(n)

ATTACHMENT_DIR(NOW) ==
    "attach " \o Unpadded(NOW.month) \o "-" \o Unpadded(NOW.day) \o "-"
              \o TwoDigit(NOW.year % 100)

\* The attachments of the archived cards, in the order of the two loops.
RECURSIVE AttachmentsOf(_)
AttachmentsOf(arch) ==
    IF arch = <<>> THEN <<>> ELSE Head(arch).attachments \o AttachmentsOf(Tail(arch))

\* The loop over the attachments from the k-th on: timeout_at is 0, or the
\* number of the download whose request raises, which ends the script.
RECURSIVE DownloadFrom(_, _, _, _, _)
DownloadFrom(fs, save_path, names, k, timeout_at) ==
    IF k > Len(names) THEN fs
    ELSE IF k = timeout_at THEN download(fs, save_path, names[k], "Timeout")
    ELSE DownloadFrom(download(fs, save_path, names[k], "content"),
                      save_path, names, k + 1, timeout_at)

\* get_card_path: the card's rows ORDER BY time ASC, the order of the raw
\* strings; SQL leaves the order of rows with equal time open.
get_card_path(card_id) ==
    LET Mine(r) == r.card_id = card_id
        rows == SelectSeq(path_taken, Mine)
        cols == [i \in 1..Len(rows) |->
                    [id |-> rows[i].id, from_list |-> rows[i].from_list,
                     to_list |-> rows[i].to_list, time |-> rows[i].time]] \o <<>>
    IN  {Permute(cols, p) : p \in
            {q \in Perms(Len(cols)) :
                \A i, j \in 1..Len(cols) : i < j => StrLeq(cols[q[i]].time, cols[q[j]].time)}}

-----------------------------------------------------------------------------
(* search_cards and count_cards                                            *)

Str(text) == [kind |-> "str", text |-> text]
Bool(value) == [kind |-> "bool", value |-> value]
Number(value) == [kind |-> "int", value |-> value]
List(items) == [kind |-> "list", items |-> items]

\* `if v:` on None, a string, a bool or a list
IsTrue(v) ==
    /\ v # None
    /\ v.kind = "str" => v.text # ""
    /\ v.kind = "bool" => v.value
    /\ v.kind = "list" => v.items # <<>>

\* The keyword arguments of search_cards and count_cards, at their defaults
NoFilters ==
    [search_text |-> None, list_filter |-> None, completed_filter |-> None,
     start_date |-> None, end_date |-> None, has_attachments |-> None,
     has_comments |-> None, has_checklists |-> None, has_due_date |-> None,
     label_filter |-> None]

\* x LIKE '%text%' for a text without wildcard: text occurs in x, letters
\* of ASCII compared without case.
Like(x, text) ==
    LET lx == LowerAll(x)
        lt == LowerAll(text)
    IN  \E i \in 1..(Len(lx) - Len(lt) + 1) : SubSeq(lx, i, i + Len(lt) - 1) = lt

\* LEFT JOIN of a card with one of its tables, when the join is made: a
\* row for each row of the table with the card's id, and one row of NULLs
\* for a card without any.  Without the join there is one row as well.
LeftJoin(rows, joined) ==
    IF ~joined \/ rows = <<>> THEN {None}
    ELSE {[kind |-> "row", id |-> i, name |-> rows[i]] : i \in 1..Len(rows)}

\* FROM cards c and the joins of `joins`: a row names its card by its place
\* k in the table, and its row of each table joined.
JoinedRows(filters) ==
    UNION {{[k |-> k, a |-> a, co |-> co, ch |-> ch, l |-> l] :
                a \in LeftJoin(card_rows[k].attachments, filters.has_attachments # None),
                co \in LeftJoin(card_rows[k].comments, filters.has_comments # None),
                ch \in LeftJoin(card_rows[k].checklists, filters.has_checklists # None),
                l \in LeftJoin(card_rows[k].labels, IsTrue(filters.label_filter))} :
            k \in 1..Len(card_rows)}

\* WHERE: the conditions of `conditions`, joined by AND.  A comparison
\* with NULL is not true.
Where(r, filters) ==
    LET c == card_rows[r.k] IN
    /\ IsTrue(filters.search_text) =>
            \/ Like(c.name, filters.search_text.text)
            \/ c.desc # None /\ Like(c.desc.text, filters.search_text.text)
    /\ IsTrue(filters.list_filter) => c.list = filters.list_filter.text
    /\ filters.completed_filter # None =>
            c.completed # None /\ c.completed.value = filters.completed_filter.value
    /\ IsTrue(filters.start_date) => StrLeq(filters.start_date.text, c.create_date)
    /\ IsTrue(filters.end_date) => StrLeq(c.create_date, filters.end_date.text)
    /\ filters.has_due_date # None =>
            (filters.has_due_date.value <=> c.due_date # None)
    /\ filters.has_attachments # None => (filters.has_attachments.value <=> r.a # None)
    /\ filters.has_comments # None => (filters.has_comments.value <=> r.co # None)
    /\ filters.has_checklists # None => (filters.has_checklists.value <=> r.ch # None)
    /\ IsTrue(filters.label_filter) => r.l # None /\ r.l.name = filters.label_filter.text

\* A mutant: the joined rows are counted, not the cards.
CountJoinedRows(filters) ==
    Cardinality({r \in JoinedRows(filters) : Where(r, filters)})

\* SELECT DISTINCT c.id, c.name, ...: the places of the cards with a row
\* that the conditions keep, in the order of the table
Selected(filters) ==
    LET kept == {r.k : r \in {q \in JoinedRows(filters) : Where(q, filters)}}
        Kept(k) == k \in kept
    IN  SelectSeq([k \in 1..Len(card_rows) |-> k] \o <<>>, Kept)

\* ORDER BY c.<sort_by> <sort_order>, and ORDER BY c.create_date DESC for a
\* column that is not valid.  The columns of text are compared byte by
\* byte; rows with one key are left in the order of their ids.
SortColumn(sort_by) ==
    IF sort_by \in {"create_date", "end_date", "name", "list", "completed"}
    THEN sort_by ELSE "create_date"

OrderedBefore(a, b, sort_by, sort_order) ==
    LET column == SortColumn(sort_by)
        descending == sort_order = "DESC" \/ column # sort_by
        key_a == card_rows[a][column]
        key_b == card_rows[b][column]
    IN  IF key_a = key_b THEN a < b
        ELSE IF descending THEN StrLess(key_b, key_a)
        ELSE StrLess(key_a, key_b)

RECURSIVE InsertOrdered(_, _, _, _)
InsertOrdered(sorted, k, sort_by, sort_order) ==
    IF sorted = <<>> THEN <<k>>
    ELSE IF OrderedBefore(k, Head(sorted), sort_by, sort_order) THEN <<k>> \o sorted
    ELSE <<Head(sorted)>> \o InsertOrdered(Tail(sorted), k, sort_by, sort_order)

RECURSIVE OrderBy(_, _, _)
OrderBy(places, sort_by, sort_order) ==
    IF places = <<>> THEN <<>>
    ELSE InsertOrdered(OrderBy(Tail(places), sort_by, sort_order), Head(places),
                       sort_by, sort_order)

\* LIMIT limit OFFSET offset, added when limit is not None and not 0
LimitOffset(rows, limit, offset) ==
    IF limit = None \/ limit.value = 0 THEN rows
    ELSE SubSeq(rows, offset + 1,
                IF offset + limit.value < Len(rows) THEN offset + limit.value
                ELSE Len(rows))

\* search_cards: the ids of the cards returned, in order
search_cards(filters, sort_by, sort_order, limit, offset) ==
    LET page == LimitOffset(OrderBy(Selected(filters), sort_by, sort_order),
                            limit, offset)
    IN  [i \in 1..Len(page) |-> card_rows[page[i]].id] \o <<>>

\* count_cards: SELECT COUNT(DISTINCT c.id) with the joins and conditions
\* of search_cards
count_cards(filters) == Len(Selected(filters))

-----------------------------------------------------------------------------
(* update_search_results                                                   *)

per_page == 20

\* The id of a component that triggers the callback, and the id of the
\* button of page index
Id(id) == [kind |-> "id", id |-> id]
PageBtn(index) == [kind |-> "page-btn", index |-> index]

PagingIds == {Id("prev-page"), Id("next-page"), Id("clear-filters-btn")}

\* text.strip() is empty
IsBlank(text) == \A i \in 1..Len(text) : IsSpace(CharAt(text, i))

\* x in items
In(x, items) == \E i \in 1..Len(items) : items[i] = x

Min2(a, b) == IF a < b THEN a ELSE b
Max2(a, b) == IF a > b THEN a ELSE b

\* create_pagination_controls: the pages that get a button, none when there
\* is one page: the first, the last, the current one and two on each side.
create_pagination_controls(current_page, total_pages) ==
    IF total_pages <= 1 THEN {}
    ELSE {1, total_pages, current_page} \cup
         (Max2(1, current_page - 2)..(Min2(total_pages + 1, current_page + 3) - 1))

\* create_results_header: "Showing start-end of total_results"
create_results_header(total_results, current_page, total_pages) ==
    [start |-> (current_page - 1) * per_page + 1,
     end |-> Min2(current_page * per_page, total_results),
     total_results |-> total_results,
     current_page |-> current_page,
     total_pages |-> total_pages]

\* The page the callback queries: the stored one, moved by the button that
\* triggered, and 1 after any other trigger.
PageToQuery(triggered_id, current_page) ==
    LET stored == IF current_page = 0 THEN 1 ELSE current_page
        moved == IF triggered_id = Id("clear-filters-btn") THEN 1
                 ELSE IF triggered_id = Id("prev-page") /\ stored > 1 THEN stored - 1
                 ELSE IF triggered_id = Id("next-page") THEN stored + 1
                 ELSE IF triggered_id.kind = "page-btn" THEN triggered_id.index
                 ELSE stored
    IN  IF triggered_id \notin PagingIds /\ triggered_id.kind # "page-btn" THEN 1
        ELSE moved

\* The keyword arguments the callback gives to search_cards and count_cards.
FiltersOf(inputs, triggered_id) ==
    LET search_text == IF IsTrue(inputs.search_text) /\ ~IsBlank(inputs.search_text.text)
                       THEN inputs.search_text ELSE None
        start_date == IF IsTrue(inputs.start_date) THEN inputs.start_date ELSE None
        end_date == IF IsTrue(inputs.end_date) THEN inputs.end_date ELSE None
        list_filter == IF IsTrue(inputs.list_filter) THEN inputs.list_filter ELSE None
        label_filter == IF IsTrue(inputs.label_filter) THEN inputs.label_filter ELSE None
        content_filters == IF IsTrue(inputs.content_filters)
                           THEN inputs.content_filters ELSE None
        completed_filter_val ==
            IF IsTrue(inputs.completion_filter) /\ inputs.completion_filter # Str("all")
            THEN IF inputs.completion_filter = Str("completed") THEN Bool(TRUE)
                 ELSE IF inputs.completion_filter = Str("pending") THEN Bool(FALSE)
                 ELSE None
            ELSE None
        Has(name) == IF content_filters # None
                     THEN Bool(In(name, content_filters.items)) ELSE None
    IN  IF triggered_id = Id("clear-filters-btn") THEN NoFilters
        ELSE [search_text |-> search_text,
              list_filter |-> IF list_filter # None THEN Str(list_filter.items[1]) ELSE None,
              completed_filter |-> completed_filter_val,
              start_date |-> start_date,
              end_date |-> end_date,
              has_attachments |-> Has("has_attachments"),
              has_comments |-> Has("has_comments"),
              has_checklists |-> Has("has_checklists"),
              has_due_date |-> Has("has_due_date"),
              label_filter |-> IF label_filter # None THEN Str(label_filter.items[1])
                               ELSE None]

\* The outputs of update_search_results, from the results of its queries:
\* total_pages, the page within 1..total_pages, the header, the page
\* buttons and the states of Previous and Next.
SearchOutputs(cards_found, total_count, total_pages, page, filters, offset) ==
    [cards |-> cards_found,
     header |-> create_results_header(total_count, page, total_pages),
     pages |-> create_pagination_controls(page, total_pages),
     current_page |-> page,
     prev_disabled |-> page <= 1,
     next_disabled |-> page >= total_pages,
     filters |-> filters, offset |-> offset,
     total_count |-> total_count, total_pages |-> total_pages]

SearchPages(cards_found, total_count, total_pages, queried, filters, offset) ==
    SearchOutputs(cards_found, total_count, total_pages,
                  Max2(1, Min2(queried, total_pages)), filters, offset)

SearchCounted(cards_found, total_count, queried, filters, offset) ==
    SearchPages(cards_found, total_count,
                Max2(1, (total_count + per_page - 1) \div per_page),
                queried, filters, offset)

\* The two queries of update_search_results: the cards at the offset of the
\* page queried, and the count.
SearchQueries(filters, sort_field, sort_order, queried, offset) ==
    SearchCounted(search_cards(filters, sort_field, sort_order, Number(per_page), offset),
                  count_cards(filters), queried, filters, offset)

SearchPage(filters, sort_field, sort_order, queried) ==
    SearchQueries(filters, sort_field, sort_order, queried, (queried - 1) * per_page)

\* update_search_results: what it returns for the values of its inputs, the
\* component that triggered it and the stored page.
update_search_results(inputs, triggered_id, current_page, pathname) ==
    IF pathname # "/search"
    THEN [cards |-> <<>>, header |-> None, pages |-> {}, current_page |-> 1,
          prev_disabled |-> TRUE, next_disabled |-> TRUE,
          filters |-> NoFilters, offset |-> 0, total_count |-> 0, total_pages |-> 1]
    ELSE SearchPage(FiltersOf(inputs, triggered_id),
                    IF IsTrue(inputs.sort_field) THEN inputs.sort_field.text
                    ELSE "create_date",
                    IF IsTrue(inputs.sort_order) THEN inputs.sort_order.text
                    ELSE "DESC",
                    PageToQuery(triggered_id, current_page))

-----------------------------------------------------------------------------
(* create_journey_state_diagram                                            *)

\* timedelta(hours=1), the placeholder length of the current list's bar
PlaceholderHours == 1

\* bool(v) of a value of the column parsed_time: only None is false, NaT and
\* every Timestamp are true.
Truthy(v) == v # None

\* pandas' isna
IsNA(v) == v = None \/ v = NaT

\* df['time'].apply(parse_timestamp): a column of datetimes and None becomes
\* datetime64, its None NaT; a column of None only stays a column of None.
ParsedTimeColumn(path_data) ==
    LET raw == [i \in 1..Len(path_data) |-> parse_timestamp(path_data[i].time)] \o <<>> IN
    IF \A i \in 1..Len(path_data) : raw[i] = None THEN raw
    ELSE [i \in 1..Len(path_data) |-> IF raw[i] = None THEN NaT ELSE Timestamp(raw[i])] \o <<>>

WithParsedTime(path_data) ==
    LET col == ParsedTimeColumn(path_data) IN
    [i \in 1..Len(path_data) |->
        [id |-> path_data[i].id, from_list |-> path_data[i].from_list,
         to_list |-> path_data[i].to_list, time |-> path_data[i].time,
         parsed_time |-> col[i]]] \o <<>>

\* A mutant: the rows ordered by the raw time string.
RowBeforeByString(a, b) == StrLess(a.time, b.time)

\* The order of sort_values('parsed_time') on rows that are not NA.
RowBefore(a, b) == a.parsed_time.value < b.parsed_time.value

\* df.sort_values('parsed_time').reset_index(drop=True): the rows that are not
\* NA ascending, then the NA rows in the order they had.  The sort is
\* quicksort, which does not promise an order for equal keys.
sort_values(df) ==
    LET n == Len(df)
        na == {i \in 1..n : IsNA(df[i].parsed_time)}
        Sorted(p) ==
            \A i, j \in 1..n : i < j =>
                /\ p[i] \in na => p[j] \in na
                /\ (p[i] \in na /\ p[j] \in na) => p[i] < p[j]
                /\ (p[i] \notin na /\ p[j] \notin na) => ~RowBefore(df[p[j]], df[p[i]])
    IN  {Permute(df, p) : p \in {q \in Perms(n) : Sorted(q)}}

\* A mutant: every bar, not only the last, ends an hour after its start.
EndTimePlaceholder(df, i) ==
    IF df[i].parsed_time = NaT THEN NaT
    ELSE [kind |-> "Timestamp",
          value |-> df[i].parsed_time.value + PlaceholderHours * 60]

\* end_time of row i (from 1) of the sorted frame
EndTime(df, i) ==
    IF i < Len(df)
    THEN LET next_move_time == parse_timestamp(df[i + 1].time) IN
         IF Truthy(next_move_time) THEN Timestamp(next_move_time) ELSE df[i].parsed_time
    ELSE IF df[i].parsed_time = NaT THEN NaT
         ELSE [kind |-> "Timestamp",
               value |-> df[i].parsed_time.value + PlaceholderHours * 60]

\* The loop over df.iterrows(): a row whose parsed_time is false is skipped,
\* every other row appends one entry; step is the row's index, from 0.
RECURSIVE TimelineFrom(_, _)
TimelineFrom(df, i) ==
    IF i > Len(df) THEN <<>>
    ELSE IF ~Truthy(df[i].parsed_time) THEN TimelineFrom(df, i + 1)
    ELSE <<[list |-> df[i].to_list,
            start |-> df[i].parsed_time,
            end |-> EndTime(df, i),
            step |-> i - 1,
            is_current |-> ~(i < Len(df))]>> \o TimelineFrom(df, i + 1)

\* Building timeline_df calls strftime on every start and end: on NaT that
\* raises ValueError.
TimelineFrameRaises(timeline_data) ==
    \E k \in 1..Len(timeline_data) :
        timeline_data[k].start = NaT \/ timeline_data[k].end = NaT

\* The ways one call can end: the timeline built and what is returned.
create_journey_state_diagram(path_data) ==
    IF path_data = <<>>
    THEN {[outcome |-> "No movement history", timeline_data |-> <<>>]}
    ELSE {[outcome |-> IF tl = <<>> THEN "No timestamp data available"
                       ELSE IF TimelineFrameRaises(tl) THEN "ValueError"
                       ELSE "figure",
           timeline_data |-> tl] :
            tl \in {TimelineFrom(df, 1) : df \in sort_values(WithParsedTime(path_data))}}

-----------------------------------------------------------------------------
(* create_journey_visualization                                            *)

\* label_dict: the distinct names of a list in the order of their first
\* occurrence.
RECURSIVE LabelsOf(_, _)
LabelsOf(all_lists, seen) ==
    IF all_lists = <<>> THEN <<>>
    ELSE IF Head(all_lists) \in seen THEN LabelsOf(Tail(all_lists), seen)
    ELSE <<Head(all_lists)>> \o LabelsOf(Tail(all_lists), seen \cup {Head(all_lists)})

\* label_dict[list_name], counted from 0
LabelIndex(labels, list_name) ==
    (CHOOSE i \in 1..Len(labels) : labels[i] = list_name) - 1

\* create_journey_visualization: the lists of the journey are the from_list
\* of the first row given and the to_list of every row, in the order given;
\* each step is a link of value 1 between the labels of two lists.
create_journey_visualization(path_data) ==
    IF path_data = <<>>
    THEN [outcome |-> "No movement history", all_lists |-> <<>>, labels |-> <<>>,
          links |-> <<>>]
    ELSE LET all_lists == <<path_data[1].from_list>> \o
                          ([i \in 1..Len(path_data) |-> path_data[i].to_list] \o <<>>)
             labels == LabelsOf(all_lists, {})
         IN  [outcome |-> "figure", all_lists |-> all_lists, labels |-> labels,
              links |-> [i \in 1..(Len(all_lists) - 1) |->
                           [source |-> LabelIndex(labels, all_lists[i]),
                            target |-> LabelIndex(labels, all_lists[i + 1]),
                            value |-> 1]] \o <<>>]

-----------------------------------------------------------------------------
(* get_card_flow_data                                                      *)

\* SQLite's substr(X, Y, Z) for Y >= 1: at most Z characters from the Y-th,
\* fewer or none where X ends before.
Substr(x, y, z) ==
    IF y > Len(x) THEN ""
    ELSE SubSeq(x, y, IF y + z - 1 > Len(x) THEN Len(x) ELSE y + z - 1)

\* '20' || substr(time, 7, 2) || '-' || substr(time, 1, 2) || '-' || substr(time, 4, 2)
SqlDate(time) ==
    "20" \o Substr(time, 7, 2) \o "-" \o Substr(time, 1, 2) \o "-" \o Substr(time, 4, 2)

\* A mutant: the bound left out of the window.
TextAtMostStrict(a, b) == StrLess(a, b)

\* a <= b on TEXT, and a >= b as TextAtMost(b, a)
TextAtMost(a, b) == StrLeq(a, b)

\* A mutant: a query that reads the first stored row only.
FlowWhereFirstRow(row, start_date, end_date) == row.id = 1

\* The WHERE clause: a condition for each bound that is given (not None and
\* not empty).
FlowWhere(row, start_date, end_date) ==
    /\ (start_date # None /\ start_date.text # "") =>
            TextAtMost(start_date.text, SqlDate(row.time))
    /\ (end_date # None /\ end_date.text # "") =>
            TextAtMost(SqlDate(row.time), end_date.text)

\* A mutant: COUNT(DISTINCT card_id)
CountDistinctCards(group) == Cardinality({row.card_id : row \in group})

\* COUNT(*) of a group of rows
CountRows(group) == Cardinality(group)

\* A mutant: GROUP BY from_list, to_list, time
GroupKeyWithTime(row) == <<row.from_list, row.to_list, row.time>>

\* GROUP BY from_list, to_list
GroupKey(row) == <<row.from_list, row.to_list>>

\* The query on the rows of table path_taken: the rows that pass WHERE,
\* GROUP BY from_list, to_list with COUNT(*) as value, HAVING COUNT(*) > 0.
\* There is one group for every key.
FlowGroupsOf(rows, start_date, end_date) ==
    LET kept == {rows[i] : i \in {k \in 1..Len(rows) :
                                    FlowWhere(rows[k], start_date, end_date)}}
        keys == {GroupKey(row) : row \in kept}
        Group(key) == {row \in kept : GroupKey(row) = key}
    IN  {g \in {[key |-> key, value |-> CountRows(Group(key))] : key \in keys} :
            g.value > 0}

FlowGroups(start_date, end_date) == FlowGroupsOf(path_taken, start_date, end_date)

\* The orders of a finite set.
OrdersOf(S) ==
    {seq \in [1..Cardinality(S) -> S] : \A i, j \in 1..Cardinality(S) : i # j => seq[i] # seq[j]}

\* SELECT from_list as source, to_list as target, COUNT(*) as value: the row
\* of a group.
FlowRow(g) == [source |-> g.key[1], target |-> g.key[2], value |-> g.value]

\* The rows of the groups ORDER BY value DESC; SQL leaves the order of equal
\* values open.
FlowRowsOf(rows, start_date, end_date) ==
    LET sorted == {groups \in OrdersOf(FlowGroupsOf(rows, start_date, end_date)) :
                      \A i, j \in 1..Len(groups) : i < j => groups[i].value >= groups[j].value}
    IN  {[i \in 1..Len(groups) |-> FlowRow(groups[i])] \o <<>> : groups \in sorted}

get_card_flow_data(start_date, end_date) == FlowRowsOf(path_taken, start_date, end_date)

\* date_range.get('start') and .get('end') of the date-range-store, None
\* when the store holds no range.
StartOf(date_range) == IF date_range = None THEN None ELSE [kind |-> "str", text |-> date_range.start]
EndOf(date_range) == IF date_range = None THEN None ELSE [kind |-> "str", text |-> date_range.end]

NodesOf(flow_data) ==
    {flow_data[i].source : i \in 1..Len(flow_data)}
        \cup {flow_data[i].target : i \in 1..Len(flow_data)}

\* sorted(list(S)) of a set of strings
SortedNames(S) == CHOOSE seq \in OrdersOf(S) : \A i, j \in 1..Len(seq) : i < j => StrLess(seq[i], seq[j])

-----------------------------------------------------------------------------
(* create_chord_diagram                                                    *)

\* A mutant: an edge from a node to itself adds its value once.
RECURSIVE NodeFlowLoopOnce(_, _)
NodeFlowLoopOnce(flow_data, node) ==
    IF flow_data = <<>> THEN 0
    ELSE (IF Head(flow_data).source = node \/ Head(flow_data).target = node
          THEN Head(flow_data).value ELSE 0)
         + NodeFlowLoopOnce(Tail(flow_data), node)

\* node_flow: every edge adds its value to its source and to its target
RECURSIVE NodeFlow(_, _)
NodeFlow(flow_data, node) ==
    IF flow_data = <<>> THEN 0
    ELSE (IF Head(flow_data).source = node THEN Head(flow_data).value ELSE 0)
         + (IF Head(flow_data).target = node THEN Head(flow_data).value ELSE 0)
         + NodeFlow(Tail(flow_data), node)

\* The dict node_flow
NodeFlowOf(flow_data) == [node \in NodesOf(flow_data) |-> NodeFlow(flow_data, node)]

\* sorted(all_nodes_set, key=node_flow, reverse=True) for one iteration
\* order of the set: descending by flow, nodes of equal flow in the order
\* the set gave them (sorted is stable, also with reverse=True).
SortedByFlow(iteration, node_flow) ==
    LET n == Len(iteration)
        key == [i \in 1..n |-> node_flow[iteration[i]]]
        p == CHOOSE q \in Perms(n) :
                \A i, j \in 1..n : i < j =>
                    \/ key[q[i]] > key[q[j]]
                    \/ (key[q[i]] = key[q[j]] /\ q[i] < q[j])
    IN  Permute(iteration, p)

\* The node orders create_chord_diagram can reach: the iteration order of a
\* set of strings depends on the hash seed of the process.
ChordNodeOrders(flow_data) ==
    LET node_flow == NodeFlowOf(flow_data) IN
    {SortedByFlow(iteration, node_flow) : iteration \in OrdersOf(NodesOf(flow_data))}

\* A float that is the quotient of two integers, den > 0, and the nan that
\* numpy gives for 0.0 / 0.0.
Float(num, den) == [kind |-> "float", num |-> num, den |-> den]
NaN == [kind |-> "nan"]
ZeroDivisionError == [kind |-> "ZeroDivisionError"]

RECURSIVE SumOf(_)
SumOf(seq) == IF seq = <<>> THEN 0 ELSE Head(seq) + SumOf(Tail(seq))

RECURSIVE MaxOf(_)
MaxOf(seq) ==
    IF Len(seq) = 1 THEN Head(seq)
    ELSE LET rest == MaxOf(Tail(seq)) IN IF Head(seq) >= rest THEN Head(seq) ELSE rest

\* values = [item['value'] for item in flow_data]
ValuesOf(flow_data) == [k \in 1..Len(flow_data) |-> flow_data[k].value] \o <<>>

\* matrix[source_idx][target_idx] = item['value'] for every item in turn: of
\* two items with the same source and target the later one stays.
Matrix(flow_data, all_nodes) ==
    LET n == Len(all_nodes)
        At(i, j) == {k \in 1..Len(flow_data) :
                        flow_data[k].source = all_nodes[i] /\ flow_data[k].target = all_nodes[j]}
        Last(S) == CHOOSE k \in S : \A m \in S : m <= k
    IN  [i \in 1..n |->
            [j \in 1..n |-> IF At(i, j) = {} THEN 0
                            ELSE flow_data[Last(At(i, j))].value] \o <<>>] \o <<>>

\* A point of the plane as a sum of node positions (the unit vectors
\* (cos theta[k], sin theta[k]), theta[k] = 2 * pi * k / n_nodes), with its
\* coefficients in thousandths.
NodePoint(i, n_nodes) == [k \in 0..(n_nodes - 1) |-> IF k = i THEN 1000 ELSE 0]

\* control_x = (x_start + x_end) / 2 * 0.3, and control_y likewise
ControlPoint(i, j, n_nodes) ==
    [k \in 0..(n_nodes - 1) |-> (IF k = i THEN 150 ELSE 0) + (IF k = j THEN 150 ELSE 0)]

\* line_width = max(1, (matrix[i][j] / max_value) * 10)
LineWidth(value, max_value) ==
    Float(IF 10 * value >= max_value THEN 10 * value ELSE max_value, max_value)

\* The chord from node i to node j (indices from 0): the Bezier curve from
\* the position of i over the control point to the position of j, in the
\* colour of i.
Chord(i, j, value, max_value, n_nodes) ==
    [source |-> i, target |-> j, value |-> value,
     start |-> NodePoint(i, n_nodes),
     control |-> ControlPoint(i, j, n_nodes),
     end |-> NodePoint(j, n_nodes),
     color |-> i,
     width |-> LineWidth(value, max_value)]

\* The loops over i and j: a chord for every cell of the matrix above 0, in
\* the order of the cells.
RECURSIVE ChordsFrom(_, _, _)
ChordsFrom(matrix, max_value, cell) ==
    LET n == Len(matrix)
        i == cell \div n
        j == cell % n
    IN  IF cell >= n * n THEN <<>>
        ELSE (IF matrix[i + 1][j + 1] > 0
              THEN <<Chord(i, j, matrix[i + 1][j + 1], max_value, n)>>
              ELSE <<>>) \o ChordsFrom(matrix, max_value, cell + 1)

\* node_sizes: sum(matrix[i]) + sum(matrix[:, i])
NodeSizes(matrix) ==
    [i \in 1..Len(matrix) |->
        SumOf(matrix[i]) + SumOf([k \in 1..Len(matrix) |-> matrix[k][i]] \o <<>>)] \o <<>>

\* 30 + (size / max_size) * 40 on numpy floats: nan when max_size is 0
NormalizedSize(size, max_size) ==
    IF max_size = 0 THEN NaN ELSE Float(30 * max_size + 40 * size, max_size)

\* The layout of one call, for the node order all_nodes: each node with its
\* index, which gives its hue index / n_nodes and its angle
\* 2 * pi * index / n_nodes, its flow and the size of its marker; and the
\* chords.
ChordLayout(flow_data, all_nodes) ==
    LET node_flow == NodeFlowOf(flow_data)
        matrix == Matrix(flow_data, all_nodes)
        node_sizes == NodeSizes(matrix)
        max_size == MaxOf(node_sizes)
    IN  [flow_data |-> flow_data,
         nodes |-> [i \in 1..Len(all_nodes) |->
                      [name |-> all_nodes[i], index |-> i - 1, n_nodes |-> Len(all_nodes),
                       node_flow |-> node_flow[all_nodes[i]],
                       node_size |-> node_sizes[i],
                       size |-> NormalizedSize(node_sizes[i], max_size)]],
         chords |-> ChordsFrom(matrix, MaxOf(ValuesOf(flow_data)), 0)]

create_chord_diagram(flow_data) ==
    IF flow_data = <<>> THEN {[flow_data |-> <<>>, nodes |-> <<>>, chords |-> <<>>]}
    ELSE {ChordLayout(flow_data, all_nodes) : all_nodes \in ChordNodeOrders(flow_data)}

-----------------------------------------------------------------------------
(* create_state_diagram                                                    *)

\* The line of one item: from the position of its source to the position of
\* its target, each end moved 0.25 along the line.  dist is 0 when source
\* and target are one node, and dx / dist, 0.0 / 0.0 on a numpy float, is
\* nan: both ends of the line are nan.
StateEdge(item, max_value) ==
    [source |-> item.source, target |-> item.target, value |-> item.value,
     dist_is_zero |-> item.source = item.target,
     ends |-> IF item.source = item.target THEN NaN
              ELSE [kind |-> "line", from |-> item.source, to |-> item.target],
     width |-> Float(max_value + 8 * item.value, max_value)]

\* A mutant: without the check of the empty list max() of no value raises.
create_state_diagram_unchecked(flow_data) ==
    IF flow_data = <<>> THEN [outcome |-> "ValueError", nodes |-> <<>>, edges |-> <<>>]
    ELSE [outcome |-> "figure", nodes |-> <<>>, edges |-> <<>>]

\* create_state_diagram: the nodes in the order of their names; value /
\* max_value on Python ints raises ZeroDivisionError when max_value is 0.
create_state_diagram(flow_data) ==
    IF flow_data = <<>> THEN [outcome |-> "figure", nodes |-> <<>>, edges |-> <<>>]
    ELSE LET all_nodes == SortedNames(NodesOf(flow_data))
             node_flow == NodeFlowOf(flow_data)
             max_value == MaxOf(ValuesOf(flow_data))
             node_sizes == [i \in 1..Len(all_nodes) |-> node_flow[all_nodes[i]]] \o <<>>
             max_size == MaxOf(node_sizes)
         IN  IF max_value = 0
             THEN [outcome |-> "ZeroDivisionError", nodes |-> <<>>, edges |-> <<>>]
             ELSE [outcome |-> "figure",
                   nodes |-> [i \in 1..Len(all_nodes) |->
                                [name |-> all_nodes[i], index |-> i - 1,
                                 n_nodes |-> Len(all_nodes),
                                 node_size |-> node_sizes[i],
                                 size |-> Float(20 * max_size + 40 * node_sizes[i],
                                                max_size)]],
                   edges |-> [k \in 1..Len(flow_data) |->
                                StateEdge(flow_data[k], max_value)]]

-----------------------------------------------------------------------------
(* update_chord_filtered                                                   *)

\* A mutant: an edge passes when one of its ends is selected.
EitherEndSelected(item, selected_lists) ==
    item.source \in selected_lists.items \/ item.target \in selected_lists.items

\* item['source'] in selected_lists and item['target'] in selected_lists
BothEndsSelected(item, selected_lists) ==
    item.source \in selected_lists.items /\ item.target \in selected_lists.items

\* The list comprehension over flow_data, or flow_data itself when
\* selected_lists is None or empty.
FilterFlow(flow_data, selected_lists) ==
    IF selected_lists # None /\ selected_lists.items # {}
    THEN LET Keep(item) == BothEndsSelected(item, selected_lists)
         IN  SelectSeq(flow_data, Keep)
    ELSE flow_data

-----------------------------------------------------------------------------
(* Inputs of the codec                                                     *)

MonthFields == {"01", "02", "13", "1", "xx"}
DayFields == {"15", "29", "30", "00"}
YearFields == {"23", "24", "-1"}
HourFields == {"09", "24", "9"}
MinuteFields == {"00", "60", "x"}

\* Strings of the shape "M:D:Y H:MI" over the fields above.
FullShape ==
    {m \o ":" \o d \o ":" \o y \o " " \o h \o ":" \o mi :
        m \in MonthFields, d \in DayFields, y \in YearFields,
        h \in HourFields, mi \in MinuteFields}

\* Strings with a wrong token count: no time part, a date or a time with a
\* field too few or too many, a third token, two spaces, nothing at all.
OddShape ==
    LET dates == {"01:15:24", "02:29:23", "13:15:24", "01:15", "01:15:24:07", "01", ":15:24"}
        times == {"09:00", "09", "09:00:30", "24:00", ":"}
    IN  dates
        \cup {d \o " " \o t : d \in dates, t \in times}
        \cup {d \o " " \o t \o " xx" : d \in dates, t \in times}
        \cup {d \o "  " \o t : d \in dates, t \in times}
        \cup {d \o " " : d \in dates}
        \cup {"", " ", ":", "x"}

RawPool == FullShape \cup OddShape

-----------------------------------------------------------------------------
(* State                                                                   *)

NoCall == [kind |-> "NoCall"]

Init ==
    /\ cards = 0
    /\ path_taken = <<>>
    /\ parsed = NoCall
    /\ journey = NoCall
    /\ flow = NoCall
    /\ chord = NoCall
    /\ formatted = NoCall
    /\ diagram = NoCall
    /\ card_rows = <<>>
    /\ trello = NoCall
    /\ run = NoCall
    /\ files = NoCall
    /\ search = NoCall

\* One call of parse_timestamp.
ParseTimestamp(time_str) ==
    /\ parsed' = [kind |-> "parsed", time_str |-> time_str,
                  result |-> parse_timestamp(time_str)]
    /\ UNCHANGED <<cards, path_taken, journey, flow, chord, formatted, diagram,
                 card_rows, trello, run, files, search>>

\* backup_to_sqlite, while the tables stay within max_cards cards and
\* max_rows moves.
BackupToSqlite(card, max_cards, max_rows) ==
    /\ cards < max_cards
    /\ Len(path_taken) + Len(card.path_taken) <= max_rows
    /\ cards' = cards + 1
    /\ card_rows' = Append(card_rows, backup_to_sqlite_card(card, cards + 1))
    /\ path_taken' = path_taken \o backup_to_sqlite_rows(card, cards + 1)
    /\ UNCHANGED <<parsed, journey, flow, chord, formatted, diagram,
                 trello, run, files, search>>

\* open_card_modal for the button of card card_id: the card is looked up,
\* its path fetched, and create_card_detail_modal draws the journey when
\* the path is not empty.
OpenCardModal(card_id) ==
    /\ card_id \in 1..cards
    /\ \E path_data \in get_card_path(card_id) :
         IF path_data = <<>>
         THEN journey' = [kind |-> "journey", card_id |-> card_id,
                          path_data |-> path_data, outcome |-> "no journey section",
                          timeline_data |-> <<>>]
         ELSE \E r \in create_journey_state_diagram(path_data) :
                journey' = [kind |-> "journey", card_id |-> card_id,
                            path_data |-> path_data, outcome |-> r.outcome,
                            timeline_data |-> r.timeline_data]
    /\ UNCHANGED <<cards, path_taken, parsed, flow, chord, formatted, diagram,
                 card_rows, trello, run, files, search>>


\* The journey flow view of card card_id: its path is fetched by
\* get_card_path and drawn by create_journey_visualization.
JourneyVisualization(card_id) ==
    /\ card_id \in 1..cards
    /\ \E path_data \in get_card_path(card_id) :
          journey' = [kind |-> "visualization", card_id |-> card_id,
                      path_data |-> path_data,
                      figure |-> create_journey_visualization(path_data)]
    /\ UNCHANGED <<cards, path_taken, parsed, flow, chord, formatted, diagram,
                   card_rows, trello, run, files, search>>

\* populate_chord_lists: off the dashboard nothing is fetched; on it the
\* flow of the stored range is fetched and its lists, sorted, become the
\* options of the list filter.  events keeps the rows of path_taken the
\* query ran on.
PopulateChordLists(pathname, date_range) ==
    /\ IF pathname # "/" /\ pathname # ""
       THEN flow' = [kind |-> "flow", pathname |-> pathname, date_range |-> date_range,
                     fetched |-> FALSE, events |-> <<>>, flow_data |-> <<>>,
                     all_lists |-> <<>>]
       ELSE \E flow_data \in get_card_flow_data(StartOf(date_range), EndOf(date_range)) :
                flow' = [kind |-> "flow", pathname |-> pathname, date_range |-> date_range,
                         fetched |-> TRUE, events |-> path_taken,
                         flow_data |-> flow_data,
                         all_lists |-> SortedNames(NodesOf(flow_data))]
    /\ UNCHANGED <<cards, path_taken, parsed, journey, chord, formatted, diagram,
                 card_rows, trello, run, files, search>>

\* update_chord_filtered: off the dashboard no figure is made; on it the
\* flow of the stored range is fetched, cut down to the selected lists and
\* drawn.
UpdateChordFiltered(selected_lists, pathname, date_range) ==
    /\ IF pathname # "/" /\ pathname # ""
       THEN chord' = [kind |-> "chord", pathname |-> pathname, date_range |-> date_range,
                      selected_lists |-> selected_lists, drawn |-> FALSE,
                      flow_data |-> <<>>,
                      figure |-> [flow_data |-> <<>>, nodes |-> <<>>, chords |-> <<>>]]
       ELSE \E flow_data \in get_card_flow_data(StartOf(date_range), EndOf(date_range)) :
            \E figure \in create_chord_diagram(
                              IF flow_data = <<>> THEN <<>>
                              ELSE FilterFlow(flow_data, selected_lists)) :
                chord' = [kind |-> "chord", pathname |-> pathname, date_range |-> date_range,
                          selected_lists |-> selected_lists, drawn |-> TRUE,
                          flow_data |-> flow_data, figure |-> figure]
    /\ UNCHANGED <<cards, path_taken, parsed, journey, flow, formatted, diagram,
                 card_rows, trello, run, files, search>>

\* create_chord_diagram on the list of edges at hand.
CreateChordDiagram ==
    /\ diagram # NoCall
    /\ \E result \in create_chord_diagram(diagram.flow_data) :
          diagram' = [kind |-> "diagram", function |-> "create_chord_diagram",
                      flow_data |-> diagram.flow_data, result |-> result]
    /\ UNCHANGED <<cards, path_taken, parsed, journey, flow, chord, formatted,
                 card_rows, trello, run, files, search>>

\* create_state_diagram on the list of edges at hand.
CreateStateDiagram ==
    /\ diagram # NoCall
    /\ diagram' = [kind |-> "diagram", function |-> "create_state_diagram",
                   flow_data |-> diagram.flow_data,
                   result |-> create_state_diagram(diagram.flow_data)]
    /\ UNCHANGED <<cards, path_taken, parsed, journey, flow, chord, formatted,
                 card_rows, trello, run, files, search>>

\* create_journey_state_diagram on the movement history at hand.
CreateJourneyStateDiagram ==
    /\ journey # NoCall
    /\ \E r \in create_journey_state_diagram(journey.path_data) :
          journey' = [kind |-> "journey", card_id |-> 0,
                      path_data |-> journey.path_data, outcome |-> r.outcome,
                      timeline_data |-> r.timeline_data]
    /\ UNCHANGED <<cards, path_taken, parsed, flow, chord, formatted, diagram,
                   card_rows, trello, run, files, search>>

\* One call of download into the directory save_path; the request gives
\* the content or raises.
Download(save_path, filename, resp) ==
    /\ files # NoCall
    /\ files' = download(files, save_path, filename, resp)
    /\ UNCHANGED <<cards, path_taken, parsed, journey, flow, chord, formatted, diagram,
                   card_rows, trello, run, search>>

\* One run of the archiver on the day NOW.  The cards to archive are taken
\* from the list and turned into dictionaries; inside `with Query(...)` each
\* is backed up, until a statement raises (sqlite3 raises when the database
\* is locked or the disk is full), and Query.__exit__ ends the block.  An
\* exception ends the script.  Otherwise the directory of the day is made
\* when it is missing and every attachment is downloaded into it, until a
\* request raises.  No card is closed on Trello: the lines that would are
\* commented out.
ArchiverRun(NOW, raise_at, timeout_at) ==
    /\ trello # NoCall
    /\ LET ToArchiveNow(c) == ToArchive(c, NOW)
           selected == SelectSeq(trello.cards, ToArchiveNow)
           arch == [i \in 1..Len(selected) |-> card_to_dict(selected[i])] \o <<>>
           before == [cards |-> cards, card_rows |-> card_rows, path_taken |-> path_taken]
           conn == [durable |-> before, current |-> ArchiveFrom(before, arch, 1, raise_at)]
           after == QueryExit(conn, raise_at).durable
           names == AttachmentsOf(arch)
       IN  /\ raise_at # None =>
                /\ raise_at.card \in 1..Len(arch)
                /\ raise_at.done < StatementCount(arch[raise_at.card])
                /\ timeout_at = 0
           /\ timeout_at <= Len(names)
           /\ cards' = after.cards
           /\ card_rows' = after.card_rows
           /\ path_taken' = after.path_taken
           /\ files' = IF raise_at # None THEN files
                       ELSE DownloadFrom(files, ATTACHMENT_DIR(NOW), names, 1, timeout_at)
           /\ run' = [kind |-> "run", NOW |-> NOW,
                      selected |-> [i \in 1..Len(selected) |-> selected[i].name] \o <<>>,
                      before |-> before,
                      exc |-> raise_at,
                      timeout |-> timeout_at # 0]
    /\ UNCHANGED <<parsed, journey, flow, chord, formatted, diagram, trello, search>>

\* A day of the calendar passes on which the archiver may run.
NextDay ==
    /\ trello # NoCall
    /\ trello' = [trello EXCEPT !.today = @ + 1]
    /\ UNCHANGED <<cards, path_taken, parsed, journey, flow, chord, formatted, diagram,
                   card_rows, run, files, search>>

\* The callback update_search_results runs on the search page: the inputs
\* have the values `inputs`, triggered_id names the component whose change
\* or click started it, and the page comes from current-page-store.  Its
\* outputs are the cards, header and page buttons shown, the stored page and
\* the state of Previous and Next.  since_clear tells whether Clear All
\* Filters was clicked and no filter input changed after that.
SearchAfter(out, inputs, triggered_id) ==
    [kind |-> "page", loaded |-> TRUE, inputs |-> inputs,
     triggered_id |-> triggered_id,
     current_page |-> out.current_page,
     prev_disabled |-> out.prev_disabled,
     next_disabled |-> out.next_disabled,
     shown |-> out,
     since_clear |-> IF triggered_id = Id("clear-filters-btn") THEN TRUE
                     ELSE IF triggered_id \in {Id("prev-page"), Id("next-page")}
                             \/ triggered_id.kind = "page-btn"
                          THEN search.since_clear
                          ELSE FALSE]

UpdateSearchResults(inputs, triggered_id) ==
    /\ search' = SearchAfter(update_search_results(inputs, triggered_id,
                                                   search.current_page, "/search"),
                             inputs, triggered_id)
    /\ UNCHANGED <<cards, path_taken, parsed, journey, flow, chord, formatted, diagram,
                   card_rows, trello, run, files>>

\* The search page is opened: the callback runs for the first time, no
\* component having triggered it.
OpenSearchPage ==
    /\ search # NoCall /\ ~search.loaded
    /\ UpdateSearchResults(search.inputs, None)

\* The user gives the input component `id` another value.
ChangeInput(id, property, value) ==
    /\ search # NoCall /\ search.loaded
    /\ search.inputs[property] # value
    /\ UpdateSearchResults([search.inputs EXCEPT ![property] = value], Id(id))

\* The user clicks the button of a page that is shown.
ClickPageBtn(index) ==
    /\ search # NoCall /\ search.loaded
    /\ index \in search.shown.pages
    /\ UpdateSearchResults(search.inputs, PageBtn(index))

\* The user clicks Previous or Next, which can be clicked when not disabled.
ClickPrevPage ==
    /\ search # NoCall /\ search.loaded
    /\ ~search.prev_disabled
    /\ UpdateSearchResults(search.inputs, Id("prev-page"))

ClickNextPage ==
    /\ search # NoCall /\ search.loaded
    /\ ~search.next_disabled
    /\ UpdateSearchResults(search.inputs, Id("next-page"))

\* The user clicks Clear All Filters: no callback writes to the filter
\* inputs, which keep their values.
ClickClearFilters ==
    /\ search # NoCall /\ search.loaded
    /\ UpdateSearchResults(search.inputs, Id("clear-filters-btn"))

\* One call of search_cards without limit and one of count_cards, with the
\* keyword arguments at hand.
QueryCards ==
    /\ search # NoCall /\ search.kind \in {"arguments", "query"}
    /\ search' = [kind |-> "query", filters |-> search.filters,
                  rows |-> search_cards(search.filters, "create_date", "DESC", None, 0),
                  pages |-> [p \in 1..((Len(card_rows) \div per_page) + 2) |->
                               search_cards(search.filters, "create_date", "DESC",
                                            Number(per_page), (p - 1) * per_page)] \o <<>>,
                  count |-> count_cards(search.filters)]
    /\ UNCHANGED <<cards, path_taken, parsed, journey, flow, chord, formatted, diagram,
                   card_rows, trello, run, files>>

\* The string at hand is parsed by parse_timestamp and the value formatted
\* by fdate.
FormatParsed ==
    /\ formatted # NoCall
    /\ formatted' = [kind |-> "formatted", time_str |-> formatted.time_str,
                     date |-> parse_timestamp(formatted.time_str),
                     result |-> fdate(parse_timestamp(formatted.time_str))]
    /\ UNCHANGED <<cards, path_taken, parsed, journey, flow, chord, diagram,
                 card_rows, trello, run, files, search>>

NextCodec == \E s \in RawPool : ParseTimestamp(s)

-----------------------------------------------------------------------------
(* The journey of one card                                                 *)

MaxJourneyCards == 1
MaxJourneyRows == 3

\* Moves at three times whose calendar order is not the order of their
\* strings, and a move whose time does not parse (month 13).
JourneyMoves ==
    {[from |-> "Backlog", to |-> "Todo", time |-> "01:20:23 23:59"],
     [from |-> "Todo", to |-> "Doing", time |-> "01:15:24 09:00"],
     [from |-> "Doing", to |-> "Done", time |-> "02:01:24 08:00"],
     [from |-> "Done", to |-> "Lost", time |-> "13:05:24 09:00"]}

\* The dictionary of a card that has moves and nothing else: no label, no
\* description, no due date, no comment, no checklist, no attachment.
CardOfMoves(m) ==
    [name |-> "Card", labels |-> <<>>, create_date |-> "01:01:23 00:00", desc |-> "",
     due_date |-> None, completed |-> None, path_taken |-> m, list |-> "Archive",
     comments |-> <<>>, checklists |-> <<>>, attachments |-> <<>>]

\* The cards of at most n moves drawn from moves.
CardsOf(moves, n) == {CardOfMoves(m) : m \in UNION {[1..k -> moves] : k \in 0..n}}

NextJourney ==
    \/ \E card \in CardsOf(JourneyMoves, MaxJourneyRows - Len(path_taken)) :
          BackupToSqlite(card, MaxJourneyCards, MaxJourneyRows)
    \/ \E card_id \in 1..cards : OpenCardModal(card_id)

SpecJourney == Init /\ [][NextJourney]_vars

\* The same cards, seen in the journey flow view.
NextSankey ==
    \/ \E card \in CardsOf(JourneyMoves, MaxJourneyRows - Len(path_taken)) :
          BackupToSqlite(card, MaxJourneyCards, MaxJourneyRows)
    \/ \E card_id \in 1..cards : JourneyVisualization(card_id)

SpecSankey == Init /\ [][NextSankey]_vars

SpecCodec == Init /\ [][NextCodec]_vars

\* A string is at hand and has not been parsed.
InitRoundTrip ==
    /\ cards = 0
    /\ path_taken = <<>>
    /\ parsed = NoCall
    /\ journey = NoCall
    /\ flow = NoCall
    /\ chord = NoCall
    /\ diagram = NoCall
    /\ card_rows = <<>>
    /\ trello = NoCall
    /\ run = NoCall
    /\ files = NoCall
    /\ search = NoCall
    /\ \E time_str \in RawPool : formatted = [kind |-> "input", time_str |-> time_str]

NextRoundTrip == FormatParsed

SpecRoundTrip == InitRoundTrip /\ [][NextRoundTrip]_vars

-----------------------------------------------------------------------------
(* The flow between lists                                                  *)

MaxFlowCards == 1
MaxFlowRows == 2

Pathnames == {"/", "/search"}

\* Days on both sides of a month's and of a year's end, a month 13, a
\* month that is no number and a time without zero padding.
FlowTimes ==
    {"12:31:23 09:00", "01:01:24 09:00", "01:31:24 09:00", "02:01:24 09:00",
     "13:05:23 09:00", "xx:15:24 09:00", "1:5:24 9:00"}

FlowMoves ==
    {[from |-> "A", to |-> "B", time |-> t] : t \in FlowTimes}
        \cup {[from |-> "B", to |-> "C", time |-> "01:01:24 09:00"]}

WindowDates == {"2023-12-31", "2024-01-01", "2024-01-31"}

\* The store without a range, and the windows from a date to the same or a later one.
DateRanges ==
    {None} \cup {r \in {[kind |-> "range", start |-> a, end |-> b] : a, b \in WindowDates} :
                    StrLeq(r.start, r.end)}

NextFlow ==
    \/ \E card \in CardsOf(FlowMoves, MaxFlowRows - Len(path_taken)) :
          BackupToSqlite(card, MaxFlowCards, MaxFlowRows)
    \/ \E pathname \in Pathnames, date_range \in DateRanges :
          PopulateChordLists(pathname, date_range)

SpecFlow == Init /\ [][NextFlow]_vars

-----------------------------------------------------------------------------
(* The chord diagram                                                       *)

MaxChordCards == 1
MaxChordRows == 2

ChordMoves ==
    {[from |-> pr[1], to |-> pr[2], time |-> "01:15:24 09:00"] :
        pr \in {<<"A", "B">>, <<"B", "C">>, <<"A", "A">>}}

\* The value of the list filter: None before it is filled, else the
\* selected lists.
Selections ==
    {None} \cup {[kind |-> "list", items |-> S] :
                    S \in {{}, {"A"}, {"A", "B"}, {"A", "B", "C"}}}

ChordRanges == {None, [kind |-> "range", start |-> "2024-01-01", end |-> "2024-01-31"]}

NextChord ==
    \/ \E card \in CardsOf(ChordMoves, MaxChordRows - Len(path_taken)) :
          BackupToSqlite(card, MaxChordCards, MaxChordRows)
    \/ \E selected_lists \in Selections, pathname \in Pathnames, date_range \in ChordRanges :
          UpdateChordFiltered(selected_lists, pathname, date_range)

SpecChord == Init /\ [][NextChord]_vars

-----------------------------------------------------------------------------
(* The journey of a card that moved twice in one minute                    *)

MaxTieCards == 1
MaxTieRows == 3

\* Two moves at the same time and a later one.
TieMoves ==
    {[from |-> "Todo", to |-> "Doing", time |-> "01:15:24 09:00"],
     [from |-> "Doing", to |-> "Review", time |-> "01:15:24 09:00"],
     [from |-> "Review", to |-> "Done", time |-> "02:01:24 08:00"]}

NextTies ==
    \/ \E card \in CardsOf(TieMoves, MaxTieRows - Len(path_taken)) :
          BackupToSqlite(card, MaxTieCards, MaxTieRows)
    \/ \E card_id \in 1..cards : OpenCardModal(card_id)

SpecTies == Init /\ [][NextTies]_vars

-----------------------------------------------------------------------------
(* The layout of a list of flow edges                                      *)

MaxEdges == 3

\* Edges between three lists: the weights 10, 5 and 2 with a self-loop, a
\* weight 20 with weights below its tenth, and a weight 0.
LayoutEdges ==
    {[source |-> "A", target |-> "B", value |-> 10],
     [source |-> "B", target |-> "C", value |-> 5],
     [source |-> "A", target |-> "A", value |-> 2],
     [source |-> "A", target |-> "B", value |-> 20],
     [source |-> "B", target |-> "C", value |-> 1],
     [source |-> "A", target |-> "B", value |-> 0]}

LayoutInputs == UNION {[1..k -> LayoutEdges] : k \in 0..MaxEdges}

\* A list of edges is at hand and no diagram has been made of it.
InitLayout ==
    /\ cards = 0
    /\ path_taken = <<>>
    /\ parsed = NoCall
    /\ journey = NoCall
    /\ flow = NoCall
    /\ chord = NoCall
    /\ formatted = NoCall
    /\ card_rows = <<>>
    /\ trello = NoCall
    /\ run = NoCall
    /\ files = NoCall
    /\ search = NoCall
    /\ \E flow_data \in LayoutInputs :
          diagram = [kind |-> "input", flow_data |-> flow_data]

NextLayout ==
    \/ CreateChordDiagram
    \/ CreateStateDiagram

SpecLayout == InitLayout /\ [][NextLayout]_vars

-----------------------------------------------------------------------------
(* The three figures, each made of the data at hand                        *)

MaxFigureEdges == 2
MaxFigureRows == 1

FigureEdges == UNION {[1..k -> LayoutEdges] : k \in 0..MaxFigureEdges}

\* Movement histories as get_card_path returns them: rows with id,
\* from_list, to_list and time.
FigurePaths ==
    UNION {[1..k -> {[id |-> 1, from_list |-> m.from, to_list |-> m.to, time |-> m.time] :
                        m \in JourneyMoves}] : k \in 0..MaxFigureRows}

\* A list of edges and a movement history are at hand and no figure has
\* been made of them.
InitFigures ==
    /\ cards = 0
    /\ path_taken = <<>>
    /\ parsed = NoCall
    /\ flow = NoCall
    /\ chord = NoCall
    /\ formatted = NoCall
    /\ card_rows = <<>>
    /\ trello = NoCall
    /\ run = NoCall
    /\ files = NoCall
    /\ search = NoCall
    /\ \E flow_data \in FigureEdges :
          diagram = [kind |-> "input", flow_data |-> flow_data]
    /\ \E path_data \in FigurePaths :
          journey = [kind |-> "input", path_data |-> path_data]

NextFigures ==
    \/ CreateChordDiagram
    \/ CreateStateDiagram
    \/ CreateJourneyStateDiagram

SpecFigures == InitFigures /\ [][NextFigures]_vars

-----------------------------------------------------------------------------
(* Runs of the archiver                                                    *)

MaxArchiveCards == 3
MaxTrelloCards == 2
MaxRunDays == 2

\* The k-th day the archiver may run on: 1 March 2024, 1 April 2024, ...
RunDay(k) == DateTime(2024, 2 + k, 1, 12, 0)

\* A Trello card of the list "Done", made on 2 January 2024.
TrelloCard(name, latest, moves, labels, attachments) ==
    [name |-> name,
     labels |-> labels,
     card_created_date |-> DateTime(2024, 1, 2, 9, 0),
     description |-> "",
     due_date |-> [kind |-> "str", text |-> ""],
     is_due_complete |-> FALSE,
     list_movements |-> moves,
     list |-> "Done",
     comments |-> <<>>,
     checklists |-> <<>>,
     attachments |-> attachments,
     latestCardMove_date |-> latest]

\* A card never moved, a card moved on 10 January and a card moved on 20
\* February, which is 10 days before the first run and 41 before the second.
TrelloCards ==
    {TrelloCard("never moved", None, <<>>, <<>>, <<"a">>),
     TrelloCard("moved in January", DateTime(2024, 1, 10, 9, 0),
                <<[source |-> "Doing", destination |-> "Done",
                   datetime |-> DateTime(2024, 1, 10, 9, 0)]>>, <<"bug">>, <<"a">>),
     TrelloCard("moved in February", DateTime(2024, 2, 20, 9, 0),
                <<[source |-> "Doing", destination |-> "Done",
                   datetime |-> DateTime(2024, 2, 20, 9, 0)]>>, <<>>, <<>>)}

\* The lists of at most n cards, no card twice
TrelloLists(n) ==
    {l \in UNION {[1..k -> TrelloCards] : k \in 0..n} :
        \A i, j \in 1..Len(l) : i # j => l[i] # l[j]}

\* The statements of a backup before which one can raise
RaisePoints ==
    {None} \cup {[card |-> k, done |-> e] : k \in 1..MaxTrelloCards, e \in 0..3}

\* The tables and the attachment directories are empty; a list is on Trello.
InitArchive ==
    /\ cards = 0
    /\ path_taken = <<>>
    /\ parsed = NoCall
    /\ journey = NoCall
    /\ flow = NoCall
    /\ chord = NoCall
    /\ formatted = NoCall
    /\ diagram = NoCall
    /\ card_rows = <<>>
    /\ run = NoCall
    /\ search = NoCall
    /\ files = [paths |-> {}, downloads |-> <<>>]
    /\ \E l \in TrelloLists(MaxTrelloCards) : trello = [today |-> 1, cards |-> l]

NextArchive ==
    \/ \E raise_at \in RaisePoints, timeout_at \in 0..MaxTrelloCards :
          /\ cards + Len(trello.cards) <= MaxArchiveCards
          /\ ArchiverRun(RunDay(trello.today), raise_at, timeout_at)
    \/ trello.today < MaxRunDays /\ NextDay

SpecArchive == InitArchive /\ [][NextArchive]_vars

-----------------------------------------------------------------------------
(* The search page                                                         *)

MaxSearchCards == 21

\* The i-th archived card: the lists, labels, comments, checklists,
\* attachments and due dates go by the number of the card, so that every
\* combination occurs; the creation dates are all different.
SearchCard(i) ==
    [id |-> i,
     name |-> IF i % 5 = 0 THEN "Fix login" ELSE "Card",
     create_date |-> "01:" \o TwoDigit(i) \o ":24 09:00",
     desc |-> IF i % 7 = 0 THEN Str("to fix") ELSE None,
     due_date |-> IF i % 2 = 1 THEN Str("02:01:24 09:00") ELSE None,
     completed |-> IF i % 2 = 1 THEN Bool(i % 4 = 1) ELSE None,
     list |-> IF i % 4 = 0 THEN "Todo" ELSE IF i % 4 = 1 THEN "Done" ELSE "Doing",
     labels |-> IF i % 3 = 0 THEN <<"bug">> ELSE IF i % 6 = 1 THEN <<"bug", "ui">> ELSE <<>>,
     comments |-> IF i % 2 = 0 THEN <<"done">> ELSE <<>>,
     checklists |-> IF i % 5 = 0 THEN <<"steps">> ELSE <<>>,
     attachments |-> IF i % 3 = 0 THEN <<"a.png">>
                     ELSE IF i % 6 = 1 THEN <<"a.png", "b.png">> ELSE <<>>]

SearchTable(n) == [i \in 1..n |-> SearchCard(i)] \o <<>>

\* Archives of no card, of a few cards and of more than one page of cards
SearchSizes == {0, 6, MaxSearchCards}

\* The values the user gives the inputs
InputValues ==
    {<<"search-input", "search_text", v>> : v \in {None, Str("fix")}} \cup
    {<<"list-filter", "list_filter", v>> :
        v \in {None, List(<<"Done">>), List(<<"Done", "Todo">>)}} \cup
    {<<"label-filter", "label_filter", v>> : v \in {None, List(<<"bug", "ui">>)}} \cup
    {<<"completion-filter", "completion_filter", v>> :
        v \in {Str("all"), Str("completed")}} \cup
    {<<"content-filters", "content_filters", v>> :
        v \in {List(<<>>), List(<<"has_comments">>),
                List(<<"has_attachments", "has_due_date">>)}}

\* The layout of the search page: no filter is set, page 1 is stored,
\* Previous and Next are disabled, nothing is shown yet.
SearchPageLayout ==
    [kind |-> "page", loaded |-> FALSE,
     inputs |-> [search_text |-> None, start_date |-> None, end_date |-> None,
                 list_filter |-> None, label_filter |-> None,
                 completion_filter |-> Str("all"), content_filters |-> List(<<>>),
                 sort_field |-> Str("create_date"), sort_order |-> Str("DESC")],
     triggered_id |-> None,
     current_page |-> 1, prev_disabled |-> TRUE, next_disabled |-> TRUE,
     shown |-> NoCall, since_clear |-> FALSE]

InitSearch ==
    /\ path_taken = <<>>
    /\ parsed = NoCall
    /\ journey = NoCall
    /\ flow = NoCall
    /\ chord = NoCall
    /\ formatted = NoCall
    /\ diagram = NoCall
    /\ trello = NoCall
    /\ run = NoCall
    /\ files = NoCall
    /\ \E n \in SearchSizes : cards = n /\ card_rows = SearchTable(n)
    /\ search = SearchPageLayout

NextSearch ==
    \/ OpenSearchPage
    \/ \E input \in InputValues : ChangeInput(input[1], input[2], input[3])
    \/ \E index \in 1..((MaxSearchCards \div per_page) + 1) : ClickPageBtn(index)
    \/ ClickPrevPage
    \/ ClickNextPage
    \/ ClickClearFilters

SpecSearch == InitSearch /\ [][NextSearch]_vars

-----------------------------------------------------------------------------
(* The two queries of the search                                           *)

MaxQueryCards == 7

OptionalBool == {None, Bool(TRUE), Bool(FALSE)}

\* Keyword arguments of search_cards and count_cards
QueryFilters ==
    {[NoFilters EXCEPT !.search_text = t, !.list_filter = li, !.completed_filter = c,
                       !.has_attachments = a, !.has_comments = co,
                       !.has_checklists = ch, !.has_due_date = d, !.label_filter = la] :
        t \in {None, Str("fix")}, li \in {None, Str("Done")}, c \in OptionalBool,
        a \in OptionalBool, co \in OptionalBool, ch \in {None, Bool(TRUE)},
        d \in OptionalBool, la \in {None, Str("bug")}}

InitQuery ==
    /\ path_taken = <<>>
    /\ parsed = NoCall
    /\ journey = NoCall
    /\ flow = NoCall
    /\ chord = NoCall
    /\ formatted = NoCall
    /\ diagram = NoCall
    /\ trello = NoCall
    /\ run = NoCall
    /\ files = NoCall
    /\ \E n \in {0, MaxQueryCards, MaxSearchCards} : cards = n /\ card_rows = SearchTable(n)
    /\ \E filters \in QueryFilters : search = [kind |-> "arguments", filters |-> filters]

NextQuery == QueryCards

SpecQuery == InitQuery /\ [][NextQuery]_vars

-----------------------------------------------------------------------------
(* Downloads into one attachment directory                                 *)

MaxDownloads == 4

\* File names: one used again and again, names with one slug, names whose
\* slug is the name download gives a duplicate, and a name with an empty
\* slug.
FileNames == {"a", "A.", "d1_a", "D1 -a", "d2_a", "?"}

Responses == {"content", "Timeout"}

\* The directory the archiver made on 15 January 2024, empty.
InitDownload ==
    /\ cards = 0
    /\ path_taken = <<>>
    /\ parsed = NoCall
    /\ journey = NoCall
    /\ flow = NoCall
    /\ chord = NoCall
    /\ formatted = NoCall
    /\ diagram = NoCall
    /\ card_rows = <<>>
    /\ trello = NoCall
    /\ run = NoCall
    /\ search = NoCall
    /\ files = [paths |-> {}, downloads |-> <<>>]

NextDownload ==
    \E filename \in FileNames, resp \in Responses :
        /\ Len(files.downloads) < MaxDownloads
        /\ Download("attach 1-15-24", filename, resp)

SpecDownload == InitDownload /\ [][NextDownload]_vars

-----------------------------------------------------------------------------
(* Reading a string by the positions of its separators: what the claims    *)
(* about the codec are stated with.                                        *)

Cuts(s, sep) == {0} \cup {i \in 1..Len(s) : CharAt(s, i) = sep} \cup {Len(s) + 1}

FieldCount(s, sep) == Cardinality(Cuts(s, sep)) - 1

NthCut(s, sep, n) ==
    CHOOSE c \in Cuts(s, sep) : Cardinality({d \in Cuts(s, sep) : d < c}) = n

\* The n-th field (from 1) of s cut at every sep.
Field(s, sep, n) == SubSeq(s, NthCut(s, sep, n - 1) + 1, NthCut(s, sep, n) - 1)

Unsigned(f) == IF f # "" /\ CharAt(f, 1) = "-" THEN SubSeq(f, 2, Len(f)) ELSE f

IsNumber(f) ==
    /\ Len(Unsigned(f)) >= 1
    /\ \A i \in 1..Len(Unsigned(f)) : CharAt(Unsigned(f), i) \in Digits

RECURSIVE Pow10(_)
Pow10(n) == IF n = 0 THEN 1 ELSE 10 * Pow10(n - 1)

RECURSIVE SumDigits(_, _)
SumDigits(u, i) ==
    IF i > Len(u) THEN 0
    ELSE DigitVal(CharAt(u, i)) * Pow10(Len(u) - i) + SumDigits(u, i + 1)

NumberOf(f) == IF Unsigned(f) = f THEN SumDigits(f, 1) ELSE 0 - SumDigits(Unsigned(f), 1)

DateToken(s) == Field(s, " ", 1)
HasTimeToken(s) == FieldCount(s, " ") >= 2
TimeToken(s) == Field(s, " ", 2)

\* The five numbers parse_timestamp reads from s, when s has them: the first
\* three fields of the first token and the first two fields of the second
\* token, 00:00 standing in for a second token that is missing altogether.
HasFields(s) ==
    /\ s # ""
    /\ FieldCount(DateToken(s), ":") >= 3
    /\ \A n \in 1..3 : IsNumber(Field(DateToken(s), ":", n))
    /\ HasTimeToken(s) =>
          /\ FieldCount(TimeToken(s), ":") >= 2
          /\ \A n \in 1..2 : IsNumber(Field(TimeToken(s), ":", n))

MM(s) == NumberOf(Field(DateToken(s), ":", 1))
DD(s) == NumberOf(Field(DateToken(s), ":", 2))
YY(s) == NumberOf(Field(DateToken(s), ":", 3))
HH(s) == IF HasTimeToken(s) THEN NumberOf(Field(TimeToken(s), ":", 1)) ELSE 0
MI(s) == IF HasTimeToken(s) THEN NumberOf(Field(TimeToken(s), ":", 2)) ELSE 0

MonthLength(y, m) ==
    CASE m \in {1, 3, 5, 7, 8, 10, 12} -> 31
      [] m \in {4, 6, 9, 11} -> 30
      [] m = 2 -> IF y % 400 = 0 \/ (y % 4 = 0 /\ y % 100 # 0) THEN 29 ELSE 28

InCalendar(s) ==
    /\ 2000 + YY(s) \in 1..9999
    /\ MM(s) \in 1..12
    /\ DD(s) \in 1..MonthLength(2000 + YY(s), MM(s))
    /\ HH(s) \in 0..23
    /\ MI(s) \in 0..59

\* Exactly the shape MM:DD:YY HH:MM: two tokens, three date fields, two
\* time fields.
ExactTokenCount(s) ==
    /\ FieldCount(s, " ") = 2
    /\ FieldCount(DateToken(s), ":") = 3
    /\ FieldCount(TimeToken(s), ":") = 2

-----------------------------------------------------------------------------
(* C5 *)

\* C5 as stated: parse_timestamp returns a timestamp or None, and returns
\* None whenever the string has not exactly the token counts of
\* MM:DD:YY HH:MM, a non-numeric field or an out-of-range calendar field.
\* Violated: "01:15:24", without a time part, parses to 2024-01-15 00:00.
C5_AsStated ==
    parsed.kind = "parsed" =>
        /\ parsed.result.kind \in {"None", "datetime"}
        /\ parsed.result # None =>
              /\ ExactTokenCount(parsed.time_str)
              /\ HasFields(parsed.time_str)
              /\ InCalendar(parsed.time_str)

\* C5 amended: parse_timestamp never raises, it returns a datetime or None.
\* It returns None exactly when the string is empty, the date token has
\* fewer than three fields, a time token is there with fewer than two
\* fields, one of the fields it reads is not a number, or a calendar field
\* is out of range.  A missing time token reads as 00:00 and fields or
\* tokens after the ones read are ignored.  A datetime returned has
\* year 2000 + YY and the month, day, hour and minute read.
C5_ParseTimestamp ==
    parsed.kind = "parsed" =>
        LET s == parsed.time_str
            r == parsed.result
        IN  /\ r.kind \in {"None", "datetime"}
            /\ r # None <=> (HasFields(s) /\ InCalendar(s))
            /\ r # None =>
                  /\ r.year = 2000 + YY(s)
                  /\ r.month = MM(s) /\ r.day = DD(s)
                  /\ r.hour = HH(s) /\ r.minute = MI(s)

\* A string without time part was parsed to midnight of its date.
C5_Witness ==
    /\ parsed.kind = "parsed"
    /\ parsed.time_str = "01:15:24"
    /\ parsed.result = [kind |-> "datetime", year |-> 2024, month |-> 1, day |-> 15,
                        hour |-> 0, minute |-> 0]

-----------------------------------------------------------------------------
(* What the claims about the journey are stated with                       *)

\* s parses: it has the fields and they are calendar fields.
WellFormed(s) == HasFields(s) /\ InCalendar(s)

CalendarKey(s) == <<2000 + YY(s), MM(s), DD(s), HH(s), MI(s)>>

\* year, then month, then day, then hour, then minute
CalendarLess(a, b) ==
    \E k \in 1..5 :
        /\ CalendarKey(a)[k] < CalendarKey(b)[k]
        /\ \A j \in 1..(k - 1) : CalendarKey(a)[j] = CalendarKey(b)[j]

AllWellFormed(path_data) == \A i \in 1..Len(path_data) : WellFormed(path_data[i].time)

DistinctTimes(path_data) ==
    \A i, j \in 1..Len(path_data) :
        i # j => CalendarKey(path_data[i].time) # CalendarKey(path_data[j].time)

\* The event with k - 1 events before it in calendar order.
EventOfRank(path_data, k) ==
    path_data[CHOOSE i \in 1..Len(path_data) :
        Cardinality({j \in 1..Len(path_data) :
            CalendarLess(path_data[j].time, path_data[i].time)}) = k - 1]

Reorderings(path_data) == {Permute(path_data, p) : p \in Perms(Len(path_data))}

TimesOf(path_data) == {path_data[i].time : i \in 1..Len(path_data)}

ExampleTimes == {"01:15:24 09:00", "02:01:24 08:00", "01:20:23 23:59"}

\* Minutes from 1970-01-01 00:00 to 2023-01-20 23:59, 2024-01-15 09:00 and
\* 2024-02-01 08:00.
ExampleStarts == <<27904319, 28421820, 28446240>>

\* An interval without its step number.
Interval(item) ==
    [list |-> item.list, start |-> item.start, end |-> item.end,
     is_current |-> item.is_current]

Intervals(timeline_data) ==
    [k \in 1..Len(timeline_data) |-> Interval(timeline_data[k])]

-----------------------------------------------------------------------------
(* C1 *)

\* C1: a card's moves are put in the calendar order of their timestamps,
\* not in the order of the raw strings.  With well-formed, distinct
\* timestamps the k-th interval is the to_list of the k-th move in calendar
\* order, whatever the order of the moves given to
\* create_journey_state_diagram; the moves at 01:15:24 09:00,
\* 02:01:24 08:00 and 01:20:23 23:59 give intervals starting
\* 2023-01-20 23:59, 2024-01-15 09:00, 2024-02-01 08:00.
C1_CalendarOrder ==
    (/\ journey.kind = "journey"
     /\ journey.path_data # <<>>
     /\ AllWellFormed(journey.path_data)
     /\ DistinctTimes(journey.path_data)) =>
        LET tl == journey.timeline_data
            n == Len(journey.path_data)
        IN  /\ journey.outcome = "figure"
            /\ Len(tl) = n
            /\ \A k \in 1..n : tl[k].list = EventOfRank(journey.path_data, k).to_list
            /\ \A k \in 1..(n - 1) : tl[k].start.value < tl[k + 1].start.value
            /\ \A given \in Reorderings(journey.path_data) :
                  \A r \in create_journey_state_diagram(given) :
                      r.timeline_data = tl
            /\ (n = 3 /\ TimesOf(journey.path_data) = ExampleTimes) =>
                  \A k \in 1..3 : tl[k].start.value = ExampleStarts[k]

\* The journey of a card that moved at the three example times was drawn.
C1_Witness ==
    /\ journey.kind = "journey"
    /\ Len(journey.path_data) = 3
    /\ TimesOf(journey.path_data) = ExampleTimes
    /\ journey.outcome = "figure"
    /\ Len(journey.timeline_data) = 3

-----------------------------------------------------------------------------
(* C2 *)

\* C2: a card whose N moves have well-formed, pairwise distinct timestamps
\* gets exactly N intervals, strictly increasing in start, each ending where
\* the next starts; only the end of the last interval, an hour after its
\* start, is not the time of a move.
C2_Partition ==
    (/\ journey.kind = "journey"
     /\ journey.path_data # <<>>
     /\ AllWellFormed(journey.path_data)
     /\ DistinctTimes(journey.path_data)) =>
        LET tl == journey.timeline_data
            n == Len(journey.path_data)
        IN  /\ Len(tl) = n
            /\ \A k \in 1..(n - 1) :
                  /\ tl[k].start.value < tl[k + 1].start.value
                  /\ tl[k].end = tl[k + 1].start
            /\ tl[n].end.value = tl[n].start.value + 60

\* A journey of three moves at distinct times, the first of which ends
\* where the second starts.
C2_Witness ==
    /\ journey.kind = "journey"
    /\ Len(journey.path_data) = 3
    /\ AllWellFormed(journey.path_data)
    /\ DistinctTimes(journey.path_data)
    /\ Len(journey.timeline_data) = 3
    /\ journey.timeline_data[1].end = journey.timeline_data[2].start
    /\ journey.timeline_data[2].end = journey.timeline_data[3].start

-----------------------------------------------------------------------------
(* C3 *)

\* C3 as stated: whenever at least one interval is emitted, also for a card
\* that has moves with unparseable timestamps, exactly one interval is
\* current, it is the last one in time, it ends an hour after its start and
\* no other interval is current.  Violated by a card with one well-formed
\* and one unparseable timestamp: the interval marked current is the one of
\* the unparseable move, its start and end are NaT, and the interval of the
\* well-formed move is not current and ends where it starts.
C3_AsStated ==
    (journey.kind = "journey" /\ journey.timeline_data # <<>>) =>
        LET tl == journey.timeline_data
            current == {k \in 1..Len(tl) : tl[k].is_current}
        IN  /\ Cardinality(current) = 1
            /\ \A k \in current :
                  /\ tl[k].start.kind = "Timestamp"
                  /\ tl[k].end.kind = "Timestamp"
                  /\ tl[k].end.value = tl[k].start.value + 60
                  /\ \A j \in 1..Len(tl) :
                        /\ tl[j].start.kind = "Timestamp"
                        /\ tl[j].start.value <= tl[k].start.value

-----------------------------------------------------------------------------
(* C4 *)

WellFormedOnly(path_data) ==
    LET Good(row) == WellFormed(row.time) IN SelectSeq(path_data, Good)

\* C4 as stated: moves with unparseable timestamps never make the journey
\* fail and give no interval, and the intervals of the other moves are those
\* the card would have without the unparseable moves.  Violated by a card
\* with one well-formed and one unparseable timestamp: the unparseable move
\* gets an interval from NaT to NaT and building the figure raises
\* ValueError.
C4_AsStated ==
    journey.kind = "journey" =>
        /\ journey.outcome # "ValueError"
        /\ \E r \in create_journey_state_diagram(WellFormedOnly(journey.path_data)) :
              Intervals(r.timeline_data) = Intervals(journey.timeline_data)

-----------------------------------------------------------------------------
(* What the claims about the flow are stated with                          *)

TwoDigits(f) == Len(f) = 2 /\ CharAt(f, 1) \in Digits /\ CharAt(f, 2) \in Digits

\* s is MM:DD:YY HH:MM with two digits in every field.
ZeroPadded(s) ==
    /\ ExactTokenCount(s)
    /\ \A n \in 1..3 : TwoDigits(Field(DateToken(s), ":", n))
    /\ \A n \in 1..2 : TwoDigits(Field(TimeToken(s), ":", n))

\* A timestamp of the stored form that names a calendar minute.
ValidStamp(s) == ZeroPadded(s) /\ InCalendar(s)

\* The calendar date of a valid stamp, and of a window bound YYYY-MM-DD.
EventDate(s) == <<2000 + YY(s), MM(s), DD(s)>>
WindowDate(text) == [k \in 1..3 |-> NumberOf(Field(text, "-", k))]

\* a is the day b or a day before it.
DateLeq(a, b) ==
    \/ a = b
    \/ \E k \in 1..3 : a[k] < b[k] /\ \A j \in 1..(k - 1) : a[j] = b[j]

InWindow(s, date_range) ==
    /\ DateLeq(WindowDate(date_range.start), EventDate(s))
    /\ DateLeq(EventDate(s), WindowDate(date_range.end))

\* The moves from source to target among the rows the query ran on.
MovesOf(source, target) ==
    {k \in 1..Len(flow.events) :
        flow.events[k].from_list = source /\ flow.events[k].to_list = target}

ListsOf(events) ==
    {events[k].from_list : k \in 1..Len(events)} \cup {events[k].to_list : k \in 1..Len(events)}

\* The weight the result gives to the edge from source to target, 0 when it
\* has no such edge.
WeightOf(flow_data, source, target) ==
    LET at == {i \in 1..Len(flow_data) :
                  flow_data[i].source = source /\ flow_data[i].target = target}
    IN  IF at = {} THEN 0 ELSE flow_data[CHOOSE i \in at : TRUE].value

Fetched == flow.kind = "flow" /\ flow.fetched

-----------------------------------------------------------------------------
(* C6 *)

\* C6: the weight of an edge of get_card_flow_data is the number of moves
\* with its pair of lists that pass the date conditions of the query; moves
\* are counted, not cards, and a pair has an edge exactly when a move of it
\* passes.  Without a window every move passes.
C6_CountsEvents ==
    Fetched =>
        \A source, target \in ListsOf(flow.events) :
            LET passing == {k \in MovesOf(source, target) :
                               FlowWhere(flow.events[k], StartOf(flow.date_range),
                                         EndOf(flow.date_range))}
            IN  /\ WeightOf(flow.flow_data, source, target) = Cardinality(passing)
                /\ flow.date_range = None =>
                      WeightOf(flow.flow_data, source, target)
                          = Cardinality(MovesOf(source, target))

\* One card made the same move twice and the edge of the move weighs 2.
C6_Witness ==
    /\ Fetched
    /\ Len(flow.events) = 2
    /\ flow.events[1].card_id = flow.events[2].card_id
    /\ flow.events[1].from_list = flow.events[2].from_list
    /\ flow.events[1].to_list = flow.events[2].to_list
    /\ flow.flow_data # <<>>
    /\ flow.flow_data[1].value = 2

-----------------------------------------------------------------------------
(* C7 *)

\* C7: with a window, a move with a valid timestamp is counted exactly when
\* its calendar date is on or after start_date and on or before end_date.
\* So the weight of a pair is at least the number of its valid moves dated
\* in the window, and exceeds it by no more than the number of its moves
\* with timestamps that are not valid.
C7_InclusiveWindow ==
    (Fetched /\ flow.date_range # None) =>
        \A source, target \in ListsOf(flow.events) :
            LET valid == {k \in MovesOf(source, target) : ValidStamp(flow.events[k].time)}
                inside == {k \in valid : InWindow(flow.events[k].time, flow.date_range)}
                weight == WeightOf(flow.flow_data, source, target)
            IN  /\ Cardinality(inside) <= weight
                /\ weight <= Cardinality(inside)
                                + Cardinality(MovesOf(source, target) \ valid)

\* The window from 2024-01-01 to 2024-01-31 on a move of 2023-12-31 and a
\* move of 2024-01-01: the second is counted and the first is not.
C7_Witness ==
    /\ Fetched
    /\ flow.date_range # None
    /\ flow.date_range.start = "2024-01-01"
    /\ flow.date_range.end = "2024-01-31"
    /\ {flow.events[k].time : k \in 1..Len(flow.events)}
           = {"12:31:23 09:00", "01:01:24 09:00"}
    /\ \A k \in 1..Len(flow.events) :
           flow.events[k].from_list = "A" /\ flow.events[k].to_list = "B"
    /\ Len(flow.events) = 2
    /\ flow.flow_data = <<[source |-> "A", target |-> "B", value |-> 1]>>

-----------------------------------------------------------------------------
(* C8 *)

\* C8 as stated: with a window no move whose timestamp is not valid counts
\* for an edge, so a pair weighs no more than its valid moves dated in the
\* window; without a window every move counts.  Violated by the move at
\* 13:05:23 09:00 under the window from 2023-12-31 to 2024-01-31: the text
\* 2023-13-05 lies between the bounds and the move is counted.
C8_AsStated ==
    Fetched =>
        \A source, target \in ListsOf(flow.events) :
            LET valid == {k \in MovesOf(source, target) : ValidStamp(flow.events[k].time)}
                inside == {k \in valid : InWindow(flow.events[k].time, flow.date_range)}
                weight == WeightOf(flow.flow_data, source, target)
            IN  IF flow.date_range = None
                THEN weight = Cardinality(MovesOf(source, target))
                ELSE weight <= Cardinality(inside)

-----------------------------------------------------------------------------
(* What the claims about the chord diagram are stated with                 *)

Drawn == chord.kind = "chord" /\ chord.drawn

EdgesOf(flow_data) == {flow_data[i] : i \in 1..Len(flow_data)}

\* item has both ends in the set of lists S.
Inside(item, S) == item.source \in S /\ item.target \in S

\* The edges of flow_data with both ends in S, in the order of flow_data.
Restricted(flow_data, S) ==
    LET Keep(item) == Inside(item, S) IN SelectSeq(flow_data, Keep)

-----------------------------------------------------------------------------
(* C9 *)

\* C9 as stated: whenever the list filter holds a set of lists,
\* update_chord_filtered gives create_chord_diagram exactly the edges with
\* both ends in the set.  Violated by the empty set: all edges are given.
C9_AsStated ==
    (Drawn /\ chord.selected_lists # None) =>
        chord.figure.flow_data = Restricted(chord.flow_data, chord.selected_lists.items)

\* C9 amended: when the list filter holds a set of lists that is not empty,
\* update_chord_filtered gives create_chord_diagram exactly the edges with
\* both ends in the set, in the order of the query; when it holds None or
\* the empty set, all edges are given.
C9_FilterBothEnds ==
    Drawn =>
        IF chord.selected_lists # None /\ chord.selected_lists.items # {}
        THEN /\ chord.figure.flow_data
                    = Restricted(chord.flow_data, chord.selected_lists.items)
             /\ \A item \in EdgesOf(chord.flow_data) :
                    item \in EdgesOf(chord.figure.flow_data)
                        <=> Inside(item, chord.selected_lists.items)
        ELSE chord.figure.flow_data = chord.flow_data

\* With A and B selected, of the edges A to B and B to C the first was
\* drawn and the second was dropped.
C9_Witness ==
    /\ Drawn
    /\ chord.selected_lists # None
    /\ chord.selected_lists.items = {"A", "B"}
    /\ EdgesOf(chord.flow_data) = {[source |-> "A", target |-> "B", value |-> 1],
                                   [source |-> "B", target |-> "C", value |-> 1]}
    /\ chord.figure.flow_data = <<[source |-> "A", target |-> "B", value |-> 1]>>

-----------------------------------------------------------------------------
(* C10 *)

\* The sum of the weights of the edges from node and of the edges to node.
TotalFlow(flow_data, node) ==
    LET Sum[i \in 0..Len(flow_data)] ==
            IF i = 0 THEN 0
            ELSE Sum[i - 1]
                 + (IF flow_data[i].source = node THEN flow_data[i].value ELSE 0)
                 + (IF flow_data[i].target = node THEN flow_data[i].value ELSE 0)
    IN  Sum[Len(flow_data)]

\* C10 as stated: the nodes of a chord diagram are in the order of their
\* total flow, largest first, nodes of equal total flow in the order of
\* their names, and a node's index is its place in that order.  Violated by
\* the single edge from A to B: both nodes have total flow 1 and the diagram
\* can have B before A.
C10_AsStated ==
    Drawn =>
        LET nodes == chord.figure.nodes IN
        /\ \A i \in 1..Len(nodes) :
              /\ nodes[i].index = i - 1
              /\ nodes[i].node_flow = TotalFlow(chord.figure.flow_data, nodes[i].name)
        /\ \A i, j \in 1..Len(nodes) : i < j =>
              \/ nodes[i].node_flow > nodes[j].node_flow
              \/ /\ nodes[i].node_flow = nodes[j].node_flow
                 /\ StrLess(nodes[i].name, nodes[j].name)

-----------------------------------------------------------------------------
(* What the claims about the layout are stated with                        *)

ChordDiagram == diagram.kind = "diagram" /\ diagram.function = "create_chord_diagram"
StateDiagram == diagram.kind = "diagram" /\ diagram.function = "create_state_diagram"

\* The node called name in a layout.
NodeNamed(nodes, name) == nodes[CHOOSE i \in 1..Len(nodes) : nodes[i].name = name]

NamesOf(nodes) == [i \in 1..Len(nodes) |-> nodes[i].name]

\* Floats compared as quotients.
FloatLeq(a, b) == a.num * b.den <= b.num * a.den
FloatEq(a, b) == a.num * b.den = b.num * a.den

ExampleEdges ==
    {[source |-> "A", target |-> "B", value |-> 10],
     [source |-> "B", target |-> "C", value |-> 5],
     [source |-> "A", target |-> "A", value |-> 2]}

\* The list at hand is the three example edges in some order.
ExampleInput == Len(diagram.flow_data) = 3 /\ EdgesOf(diagram.flow_data) = ExampleEdges

\* A Bezier curve is a single point exactly when its three control points
\* are one point.
NonzeroLength(c) == ~(c.start = c.control /\ c.control = c.end)

-----------------------------------------------------------------------------
(* C11 *)

\* C11 as stated: every permutation of a list of edges gives the nodes (in
\* the same order, with the same indices, sizes and colours) and the chords
\* that create_chord_diagram gave for the list, on every run.  Violated by
\* the single edge from A to B with weight 10: one run has A before B and
\* another B before A.
C11_AsStated ==
    ChordDiagram =>
        \A given \in Reorderings(diagram.flow_data) :
            \A r \in create_chord_diagram(given) :
                /\ r.nodes = diagram.result.nodes
                /\ r.chords = diagram.result.chords

-----------------------------------------------------------------------------
(* C12 *)

\* C12 as stated: the edges A to B 10, B to C 5 and A to A 2 give three
\* nodes with total flow A = 22, B = 15, C = 5 in the order A, B, C, and A
\* has the largest marker and hue 0.  Violated: A has total flow 14 and B
\* comes first.
C12_AsStated ==
    (ChordDiagram /\ ExampleInput) =>
        LET nodes == diagram.result.nodes IN
        /\ NamesOf(nodes) = <<"A", "B", "C">>
        /\ NodeNamed(nodes, "A").node_flow = 22
        /\ NodeNamed(nodes, "B").node_flow = 15
        /\ NodeNamed(nodes, "C").node_flow = 5
        /\ NodeNamed(nodes, "A").index = 0
        /\ \A i \in 1..Len(nodes) : FloatLeq(nodes[i].size, NodeNamed(nodes, "A").size)

\* C12 amended: the edges A to B 10, B to C 5 and A to A 2, in any order,
\* give exactly three nodes with total flow A = 14 (the self-loop counts as
\* outgoing and as incoming), B = 15 and C = 5, in the order B, A, C; B has
\* the largest marker, of size 70, and index 0, which is hue 0.
C12_Example ==
    (ChordDiagram /\ ExampleInput) =>
        LET nodes == diagram.result.nodes IN
        /\ NamesOf(nodes) = <<"B", "A", "C">>
        /\ NodeNamed(nodes, "A").node_flow = 14
        /\ NodeNamed(nodes, "B").node_flow = 15
        /\ NodeNamed(nodes, "C").node_flow = 5
        /\ \A i \in 1..3 : nodes[i].node_size = nodes[i].node_flow
        /\ NodeNamed(nodes, "B").index = 0
        /\ FloatEq(NodeNamed(nodes, "B").size, Float(70, 1))
        /\ \A i \in 2..3 : ~FloatLeq(nodes[1].size, nodes[i].size)

\* The chord diagram of the example edges, given in the order of the
\* example, has been laid out with three nodes.
C12_Witness ==
    /\ ChordDiagram
    /\ diagram.flow_data = <<[source |-> "A", target |-> "B", value |-> 10],
                             [source |-> "B", target |-> "C", value |-> 5],
                             [source |-> "A", target |-> "A", value |-> 2]>>
    /\ Len(diagram.result.nodes) = 3
    /\ Len(diagram.result.chords) = 3

-----------------------------------------------------------------------------
(* C13 *)

\* C13 as stated: for every edge of the input from a list to itself with a
\* weight above 0, create_chord_diagram and create_state_diagram raise no
\* error, divide by no zero distance and draw the edge with a length above
\* 0.  Violated by create_state_diagram on the edge from A to A: the
\* distance between the ends is 0, the division gives nan and the line has
\* nan for both ends.
C13_AsStated ==
    diagram.kind = "diagram" =>
        \A k \in 1..Len(diagram.flow_data) :
            LET item == diagram.flow_data[k] IN
            (item.source = item.target /\ item.value > 0) =>
                IF diagram.function = "create_chord_diagram"
                THEN \E c \in 1..Len(diagram.result.chords) :
                        LET chord_c == diagram.result.chords[c] IN
                        /\ chord_c.source = NodeNamed(diagram.result.nodes, item.source).index
                        /\ chord_c.target = chord_c.source
                        /\ NonzeroLength(chord_c)
                ELSE /\ diagram.result.outcome = "figure"
                     /\ ~diagram.result.edges[k].dist_is_zero
                     /\ diagram.result.edges[k].ends # NaN

-----------------------------------------------------------------------------
(* C14 *)

\* The event with k - 1 events before it, an event being before another
\* when its time is earlier, or the same and its place in the input earlier.
StableEventOfRank(path_data, k) ==
    path_data[CHOOSE i \in 1..Len(path_data) :
        Cardinality({j \in 1..Len(path_data) :
            \/ CalendarLess(path_data[j].time, path_data[i].time)
            \/ /\ CalendarKey(path_data[j].time) = CalendarKey(path_data[i].time)
               /\ j < i}) = k - 1]

\* C14 as stated: when moves of a card have the same valid timestamp, the
\* journey has them in the order of the input: the k-th interval is the
\* to_list of the k-th move of the stable order.  Violated by the moves
\* Todo to Doing and Doing to Review, both at 01:15:24 09:00: sort_values
\* sorts with quicksort, which may give Review before Doing.
C14_AsStated ==
    (/\ journey.kind = "journey"
     /\ journey.path_data # <<>>
     /\ AllWellFormed(journey.path_data)) =>
        /\ Len(journey.timeline_data) = Len(journey.path_data)
        /\ \A k \in 1..Len(journey.path_data) :
              journey.timeline_data[k].list
                  = StableEventOfRank(journey.path_data, k).to_list

-----------------------------------------------------------------------------
(* C15 *)

\* C15 as stated: for moves with well-formed, distinct timestamps the first
\* interval is in the from_list of the first move in time, and every move
\* has an interval in its to_list that starts at the time of the move.
\* Violated by the single move from Backlog to Todo: the only interval is in
\* Todo, and Backlog is not in the timeline.
C15_AsStated ==
    (/\ journey.kind = "journey"
     /\ journey.path_data # <<>>
     /\ AllWellFormed(journey.path_data)
     /\ DistinctTimes(journey.path_data)) =>
        LET tl == journey.timeline_data IN
        /\ tl # <<>>
        /\ tl[1].list = EventOfRank(journey.path_data, 1).from_list
        /\ \A i \in 1..Len(journey.path_data) :
              \E k \in 1..Len(tl) :
                  /\ tl[k].list = journey.path_data[i].to_list
                  /\ tl[k].start = Timestamp(parse_timestamp(journey.path_data[i].time))

-----------------------------------------------------------------------------
(* C16 *)

\* C16: a string of the form MM:DD:YY HH:MM with two digits in every field
\* that names a calendar minute (of the years 2000 to 2099) is given back
\* by fdate from the value parse_timestamp reads from it.
C16_RoundTrip ==
    (/\ formatted.kind = "formatted"
     /\ ZeroPadded(formatted.time_str)
     /\ InCalendar(formatted.time_str)) =>
        /\ formatted.date.kind = "datetime"
        /\ formatted.date.year \in 2000..2099
        /\ formatted.result = [kind |-> "str", text |-> formatted.time_str]

\* The leap day of 2024 at 09:00 went through parse_timestamp and fdate.
C16_Witness ==
    /\ formatted.kind = "formatted"
    /\ formatted.time_str = "02:29:24 09:00"
    /\ formatted.date = [kind |-> "datetime", year |-> 2024, month |-> 2, day |-> 29,
                         hour |-> 9, minute |-> 0]
    /\ formatted.result = [kind |-> "str", text |-> "02:29:24 09:00"]

-----------------------------------------------------------------------------
(* C17 *)

\* The rows as table path_taken holds them when they are inserted in the
\* order given: the rowid is the place in the table.
Inserted(rows) == [i \in 1..Len(rows) |-> [rows[i] EXCEPT !.id = i]] \o <<>>

\* C17: the query run again on the same rows and the same window, and run
\* on the same rows inserted in any other order, gives the same set of
\* (source, target, value) as it gave.
C17_SameEdges ==
    Fetched =>
        \A given \in Reorderings(flow.events) :
            \A result \in FlowRowsOf(Inserted(given), StartOf(flow.date_range),
                                     EndOf(flow.date_range)) :
                /\ EdgesOf(result) = EdgesOf(flow.flow_data)
                /\ Len(result) = Len(flow.flow_data)

\* The flow of a table with the moves A to B and B to C has both edges.
C17_Witness ==
    /\ Fetched
    /\ flow.date_range = None
    /\ Len(flow.events) = 2
    /\ EdgesOf(flow.flow_data) = {[source |-> "A", target |-> "B", value |-> 1],
                                  [source |-> "B", target |-> "C", value |-> 1]}

-----------------------------------------------------------------------------
(* C18 *)

\* C18: in a result of get_card_flow_data no two edges have the same source
\* and the same target, every edge has a weight of 1 or more, and a pair of
\* lists of which no move passes the date conditions has no edge.
C18_UniquePositive ==
    Fetched =>
        LET result == flow.flow_data IN
        /\ \A i, j \in 1..Len(result) :
              i # j => ~(result[i].source = result[j].source
                          /\ result[i].target = result[j].target)
        /\ \A i \in 1..Len(result) : result[i].value >= 1
        /\ \A i \in 1..Len(result) :
              \E k \in MovesOf(result[i].source, result[i].target) :
                  FlowWhere(flow.events[k], StartOf(flow.date_range),
                            EndOf(flow.date_range))

\* Under the window from 2024-01-01 to 2024-01-31 the move A to B of
\* 2023-12-31 gives no edge and the move B to C of 2024-01-01 gives one.
C18_Witness ==
    /\ Fetched
    /\ flow.date_range # None
    /\ flow.date_range.start = "2024-01-01"
    /\ flow.date_range.end = "2024-01-31"
    /\ Len(flow.events) = 2
    /\ \E k \in 1..2 : /\ flow.events[k].from_list = "A"
                       /\ flow.events[k].time = "12:31:23 09:00"
    /\ \E k \in 1..2 : /\ flow.events[k].from_list = "B"
                       /\ flow.events[k].time = "01:01:24 09:00"
    /\ flow.flow_data = <<[source |-> "B", target |-> "C", value |-> 1]>>

-----------------------------------------------------------------------------
(* What the claims about sizes and widths are stated with                  *)

\* No two edges of the list have the same source and the same target.
UniquePairs(flow_data) ==
    \A i, j \in 1..Len(flow_data) :
        i # j => ~(flow_data[i].source = flow_data[j].source
                    /\ flow_data[i].target = flow_data[j].target)

\* The smallest and the largest marker size and line width of each diagram.
MinSize == IF diagram.function = "create_chord_diagram" THEN 30 ELSE 20
MaxSize == IF diagram.function = "create_chord_diagram" THEN 70 ELSE 60
MinWidth == 1
MaxWidth == IF diagram.function = "create_chord_diagram" THEN 10 ELSE 9

\* The largest total flow of a node of the list.
MaxTotalFlow(flow_data) ==
    CHOOSE m \in {TotalFlow(flow_data, node) : node \in NodesOf(flow_data)} :
        \A node \in NodesOf(flow_data) : TotalFlow(flow_data, node) <= m

\* The lines drawn for edges: the chords, or the edges of the state diagram.
LinesOf(result) == IF diagram.function = "create_chord_diagram" THEN result.chords
                   ELSE result.edges

-----------------------------------------------------------------------------
(* C19 *)

\* C19 as stated: a diagram of a list of edges (no pair twice) is made
\* without a division by zero, and the marker of every node has the size
\* min + (total flow / largest total flow) * (max - min), which is max for
\* the nodes of the largest total flow and lies between min and max; when
\* the largest total flow is 0 the size is min.  Violated by the single edge
\* from A to B with weight 0: create_chord_diagram gives sizes nan and
\* create_state_diagram raises ZeroDivisionError.
C19_AsStated ==
    (/\ diagram.kind = "diagram"
     /\ diagram.flow_data # <<>>
     /\ UniquePairs(diagram.flow_data)) =>
        LET nodes == diagram.result.nodes
            largest == MaxTotalFlow(diagram.flow_data)
        IN  /\ diagram.function = "create_state_diagram" =>
                  diagram.result.outcome = "figure"
            /\ Len(nodes) = Cardinality(NodesOf(diagram.flow_data))
            /\ \A i \in 1..Len(nodes) :
                  LET total == TotalFlow(diagram.flow_data, nodes[i].name) IN
                  /\ nodes[i].size.kind = "float"
                  /\ FloatLeq(Float(MinSize, 1), nodes[i].size)
                  /\ FloatLeq(nodes[i].size, Float(MaxSize, 1))
                  /\ IF largest = 0 THEN FloatEq(nodes[i].size, Float(MinSize, 1))
                     ELSE FloatEq(nodes[i].size,
                                  Float(MinSize * largest + (MaxSize - MinSize) * total,
                                        largest))

-----------------------------------------------------------------------------
(* C20 *)

\* C20 as stated: in a diagram of a list of edges with weights above 0 (no
\* pair twice) every edge is drawn with a width between min and max, an
\* edge of the largest weight with max, and two edges of different weights
\* with different widths.  Violated by create_chord_diagram on the edges A
\* to B 20, B to C 1 and A to A 2: the widths are 10, 1 and 1, the edges of
\* weight 1 and 2 being both drawn at max(1, ...) = 1.
C20_AsStated ==
    (/\ diagram.kind = "diagram"
     /\ diagram.flow_data # <<>>
     /\ UniquePairs(diagram.flow_data)
     /\ \A k \in 1..Len(diagram.flow_data) : diagram.flow_data[k].value > 0) =>
        LET lines == LinesOf(diagram.result)
            largest == MaxOf(ValuesOf(diagram.flow_data))
        IN  /\ Len(lines) = Len(diagram.flow_data)
            /\ \A k \in 1..Len(lines) :
                  /\ FloatLeq(Float(MinWidth, 1), lines[k].width)
                  /\ FloatLeq(lines[k].width, Float(MaxWidth, 1))
                  /\ lines[k].value = largest => FloatEq(lines[k].width, Float(MaxWidth, 1))
            /\ \A k, m \in 1..Len(lines) :
                  lines[k].value # lines[m].value => ~FloatEq(lines[k].width, lines[m].width)

-----------------------------------------------------------------------------
(* C21 *)

\* C21: empty input is no error.  create_journey_state_diagram of no event
\* returns the figure "No movement history" with no interval;
\* create_chord_diagram of no edge returns a figure with no node and no
\* chord; create_state_diagram of no edge returns a figure, raising nothing,
\* with no node and no edge.
C21_EmptyInput ==
    /\ (journey.kind = "journey" /\ journey.path_data = <<>>) =>
            /\ journey.outcome = "No movement history"
            /\ journey.timeline_data = <<>>
    /\ (ChordDiagram /\ diagram.flow_data = <<>>) =>
            /\ diagram.result.nodes = <<>>
            /\ diagram.result.chords = <<>>
    /\ (StateDiagram /\ diagram.flow_data = <<>>) =>
            /\ diagram.result.outcome = "figure"
            /\ diagram.result.nodes = <<>>
            /\ diagram.result.edges = <<>>

\* create_journey_state_diagram has been called with no event and
\* create_chord_diagram with no edge.
C21_Witness ==
    /\ journey.kind = "journey" /\ journey.path_data = <<>>
    /\ ChordDiagram /\ diagram.flow_data = <<>>

-----------------------------------------------------------------------------
(* C24 *)

\* C24 as stated: the journey flow view of a card whose moves have
\* well-formed, distinct timestamps visits the from_list of the earliest
\* move and then the to_list of every move in calendar order.  Violated by
\* the moves Backlog -> Todo at 01:20:23 23:59 and Todo -> Doing at
\* 01:15:24 09:00: get_card_path orders by the raw string, so the later
\* move comes first and the view shows Todo, Doing, Todo.
C24_AsStated ==
    (/\ journey.kind = "visualization"
     /\ journey.path_data # <<>>
     /\ AllWellFormed(journey.path_data)
     /\ DistinctTimes(journey.path_data)) =>
        LET n == Len(journey.path_data) IN
        /\ journey.figure.outcome = "figure"
        /\ journey.figure.all_lists =
              <<EventOfRank(journey.path_data, 1).from_list>> \o
              ([k \in 1..n |-> EventOfRank(journey.path_data, k).to_list] \o <<>>)

-----------------------------------------------------------------------------
(* C29 *)

\* C29: download never opens a route that names a file already: after any
\* sequence of downloads into one directory, no download found a file at
\* its route, no two downloads have one route, and every route is a file of
\* the directory.
C29_NoOverwrite ==
    files # NoCall =>
        LET d == files.downloads IN
        /\ \A k \in 1..Len(d) : ~d[k].existed /\ d[k].route \in files.paths
        /\ \A k, m \in 1..Len(d) : k # m => d[k].route # d[m].route
        /\ Cardinality(files.paths) = Len(d)

\* The name "a" was downloaded three times and "d1_a" once: the second "a"
\* took d1_a or found it taken.
C29_Witness ==
    /\ files # NoCall
    /\ Cardinality({k \in 1..Len(files.downloads) : files.downloads[k].filename = "a"}) = 3
    /\ \E k \in 1..Len(files.downloads) : files.downloads[k].filename = "d1_a"

-----------------------------------------------------------------------------
(* C22 *)

\* C22 as stated: when a statement raises inside the block `with
\* Query(...)` of a run, the tables are left as they were before the block:
\* no row of any card of the run is in them.  Violated by a run on the card
\* "moved in January" in which the insert of its move raises: the rows of
\* the card and of its label, inserted before, are committed by
\* Query.__exit__, and the rollback that follows has nothing to undo.
C22_AsStated ==
    (run.kind = "run" /\ run.exc # None) =>
        /\ cards = run.before.cards
        /\ card_rows = run.before.card_rows
        /\ path_taken = run.before.path_taken

-----------------------------------------------------------------------------
(* C30 *)

\* C30 as stated: over any sequence of runs no Trello card has two rows in
\* table cards.  Violated by two runs on a list with the card "never
\* moved": no run closes the card, so the second run selects it and inserts
\* it again.
C30_AsStated ==
    \A i, j \in 1..Len(card_rows) :
        i # j => card_rows[i].name # card_rows[j].name

-----------------------------------------------------------------------------
(* What the claims about the search are stated with                        *)

\* The search page has shown results.
Shown == search.kind = "page" /\ search.loaded

\* The inputs of the search page other than `property` have the values of
\* the layout: they set no filter.
OnlyInput(property) ==
    \A other \in DOMAIN SearchPageLayout.inputs :
        other # property => search.inputs[other] = SearchPageLayout.inputs[other]

\* The results shown are those of the inputs: the callback ran because a
\* filter input changed.
AfterChangeOf(id, property) ==
    Shown /\ search.triggered_id = Id(id) /\ OnlyInput(property)

\* The archived cards that have what a content filter asks for
Has(c, name) ==
    CASE name = "has_attachments" -> c.attachments # <<>>
      [] name = "has_comments" -> c.comments # <<>>
      [] name = "has_checklists" -> c.checklists # <<>>
      [] name = "has_due_date" -> c.due_date # None

IdsWhere(P(_)) == {card_rows[k].id : k \in {j \in 1..Len(card_rows) : P(card_rows[j])}}

\* The cards of all the pages of the results shown
RECURSIVE Concat(_)
Concat(seqs) == IF seqs = <<>> THEN <<>> ELSE Head(seqs) \o Concat(Tail(seqs))

Range(seq) == {seq[i] : i \in 1..Len(seq)}

-----------------------------------------------------------------------------
(* C23 *)

\* C23 as stated: when exactly one content filter is checked and no other
\* filter is set, the search finds every card that has what the checked
\* filter asks for, whatever else it has.  Violated by checking Has
\* Comments alone on the archive of 6 cards: card 6 has a comment and an
\* attachment and is not found, since the unchecked Has Attachments is given
\* on as False, which asks for cards without attachment.
C23_AsStated ==
    \A name \in {"has_attachments", "has_comments", "has_checklists", "has_due_date"} :
        (AfterChangeOf("content-filters", "content_filters")
         /\ search.inputs.content_filters = List(<<name>>)) =>
            LET HasIt(c) == Has(c, name) IN
            /\ search.shown.total_count = Cardinality(IdsWhere(HasIt))
            /\ Cardinality(IdsWhere(HasIt)) <= per_page =>
                   Range(search.shown.cards) = IdsWhere(HasIt)

-----------------------------------------------------------------------------
(* C25 *)

\* C25 as stated: after any sequence of events of the search page the page
\* stored and shown is between 1 and the number of pages, and the cards
\* shown are those at offset (page - 1) * 20 of the result of the filters
\* the callback used.  Violated on the archive of 21 cards by selecting the
\* list Done (6 cards, one page), clicking Clear All Filters (21 cards, two
\* pages, Next enabled) and clicking Next: the callback queries page 2 of
\* the cards of Done, which is empty, and stores and shows page 1.
C25_AsStated ==
    Shown =>
        /\ 1 <= search.current_page
        /\ search.current_page <= search.shown.total_pages
        /\ search.shown.header.current_page = search.current_page
        /\ search.shown.cards =
              search_cards(search.shown.filters, search.inputs.sort_field.text,
                           search.inputs.sort_order.text, Number(per_page),
                           (search.current_page - 1) * per_page)

-----------------------------------------------------------------------------
(* C26 *)

\* C26 as stated: once Clear All Filters is clicked, and until a filter
\* input is changed, the results shown are those of no filter, and right
\* after the click they are on page 1.  Violated by the events of C25: the
\* click on Next after Clear All Filters shows the cards of the list Done
\* again, the filter inputs having kept their values.
C26_AsStated ==
    (Shown /\ search.since_clear) =>
        /\ search.shown.filters = NoFilters
        /\ search.shown.total_count = Len(card_rows)
        /\ search.triggered_id = Id("clear-filters-btn") => search.current_page = 1

-----------------------------------------------------------------------------
(* C27 *)

\* C27 as stated: with several lists selected and no other filter the
\* search finds, and counts, the cards of any of the selected lists; with
\* several labels selected, the cards with any of the selected labels.
\* Violated by selecting Done and Todo on the archive of 6 cards: the cards
\* 1 and 5 of Done are found and counted, card 4 of Todo is not, since only
\* the first selected value is given on to the queries.
C27_AsStated ==
    /\ (AfterChangeOf("list-filter", "list_filter") /\ IsTrue(search.inputs.list_filter)) =>
            LET InList(c) == In(c.list, search.inputs.list_filter.items) IN
            /\ search.shown.total_count = Cardinality(IdsWhere(InList))
            /\ Cardinality(IdsWhere(InList)) <= per_page =>
                   Range(search.shown.cards) = IdsWhere(InList)
    /\ (AfterChangeOf("label-filter", "label_filter") /\ IsTrue(search.inputs.label_filter)) =>
            LET Labelled(c) == \E i \in 1..Len(c.labels) :
                                  In(c.labels[i], search.inputs.label_filter.items) IN
            /\ search.shown.total_count = Cardinality(IdsWhere(Labelled))
            /\ Cardinality(IdsWhere(Labelled)) <= per_page =>
                   Range(search.shown.cards) = IdsWhere(Labelled)

-----------------------------------------------------------------------------
(* C28 *)

Queried == search.kind = "query"

\* total_pages as update_search_results computes it from the count
TotalPages(total_count) == Max2(1, (total_count + per_page - 1) \div per_page)

\* C28 as stated: count_cards returns the number of cards search_cards
\* returns with the same filters and no limit, and the pages from 1 to
\* total_pages are exactly the pages with results.  Violated by filters
\* that no card matches (and by the empty archive): the count is 0,
\* total_pages is 1 and page 1 has no result.
C28_AsStated ==
    Queried =>
        /\ search.count = Len(search.rows)
        /\ \A p \in 1..Len(search.pages) :
              search.pages[p] # <<>> <=> p <= TotalPages(search.count)

\* C28: for every combination of filters count_cards returns the number of
\* cards search_cards returns with the same filters and no limit, each card
\* once; the pages of 20 are the result cut in order; when a card matches,
\* the pages from 1 to total_pages are exactly those with results, and when
\* none matches total_pages is 1 and page 1 is empty.
C28_CountMatches ==
    Queried =>
        /\ search.count = Len(search.rows)
        /\ Cardinality(Range(search.rows)) = Len(search.rows)
        /\ Concat(search.pages) = search.rows
        /\ search.count > 0 =>
              \A p \in 1..Len(search.pages) :
                  search.pages[p] # <<>> <=> p <= TotalPages(search.count)
        /\ search.count = 0 =>
              /\ TotalPages(search.count) = 1
              /\ \A p \in 1..Len(search.pages) : search.pages[p] = <<>>

\* The cards with attachments were asked for, and card 1, which has two
\* attachments and so two joined rows, is among those found.
C28_Witness ==
    /\ Queried
    /\ search.filters.has_attachments = Bool(TRUE)
    /\ In(1, search.rows)
    /\ search.count > 1

====
